---------------------------- MODULE Spec2Model ----------------------------
(***************************************************************************)
(* State-machine model of the ejudge integration layer of ShashkovS/ejapp:  *)
(*   backend/ejudge/models.py   request / reply models and their validators *)
(*   backend/ejudge/client.py   payload encoders and EjudgeClient           *)
(*   backend/ejudge/mocks.py    the mock transport harness and its helpers  *)
(*                                                                          *)
(* Conventions.  An optional value is a sequence: None is <<>> and a        *)
(* present value v is <<v>>.  A free-form Python str is a sequence of       *)
(* one-character strings, so that whitespace stripping and stringification  *)
(* are computed; a Python bytes value is a sequence of byte values.         *)
(* Enumerated literals (action names, error symbols, HTTP methods, field    *)
(* names) are atomic strings.  A JSON object is a function from its keys.   *)
(***************************************************************************)
EXTENDS Integers, Sequences, FiniteSets, TLC

VARIABLES
    \* -- request construction and payload encoding (SpecReq) --
    phase,      \* "new" | "built" | "encoded"
    kind,       \* which request model is being constructed
    raw,        \* the keyword arguments handed to the constructor
    built,      \* the constructor's outcome: an instance or a ValidationError
    encoded,    \* the payload encoder's outcome
    \* -- client and transport (Spec) --
    client,     \* how EjudgeClient got its network client, and that client's headers
    transport,  \* "mock" (create_mock_transport) | "remote" (any other transport)
    registered, \* the keyword arguments create_mock_transport was called with
    responses,  \* the harness's `responses` mapping: action -> (status, payload)
    calls,      \* the harness's caller-visible `calls` list of RecordedCall
    arrived,    \* number of requests the harness handler has been invoked with
    issued,     \* number of client operations / raw requests started so far
    cur,        \* the operation in progress: position, request, response, outcome
    \* -- concurrent operations on one client (SpecConc) --
    tasks,      \* the operations in flight, each with its own position and outcome
    \* -- the web application (SpecApp) --
    app         \* database tables, tokens issued, and the last call with its response

vars == <<phase, kind, raw, built, encoded,
          client, transport, registered, responses, calls, arrived, issued, cur,
          tasks, app>>

reqVars == <<phase, kind, raw, built, encoded>>
netVars == <<client, transport, registered, responses, calls, arrived, issued, cur>>
webVars == <<tasks, app>>

(***************************************************************************)
(* Bounds                                                                   *)
(***************************************************************************)
\* longest str / bytes value drawn as an input
MaxLen == 2
\* number of operations issued in one behaviour
MaxCalls == 2

(***************************************************************************)
(* Optional values, strings, bytes                                          *)
(***************************************************************************)
None == <<>>
Some(v) == <<v>>
Get(o) == o[1]

TextChars == {"a", " "}
Whitespace == {" "}
ByteVals == {97, 255}

SeqsUpTo(S, n) == UNION {[1..k -> S] : k \in 0..n}
Texts == SeqsUpTo(TextChars, MaxLen)
ByteStrings == SeqsUpTo(ByteVals, MaxLen)

RECURSIVE LStrip(_)
LStrip(s) == IF s # <<>> /\ Head(s) \in Whitespace THEN LStrip(Tail(s)) ELSE s

RECURSIVE RStrip(_)
RStrip(s) ==
    IF s # <<>> /\ s[Len(s)] \in Whitespace THEN RStrip(SubSeq(s, 1, Len(s) - 1)) ELSE s

\* str.strip(), applied by pydantic to every str field (str_strip_whitespace=True)
Strip(s) == RStrip(LStrip(s))

StripOpt(o) == IF o = None THEN None ELSE Some(Strip(Get(o)))

Digit(d) ==
    CASE d = 0 -> "0" [] d = 1 -> "1" [] d = 2 -> "2" [] d = 3 -> "3" [] d = 4 -> "4"
      [] d = 5 -> "5" [] d = 6 -> "6" [] d = 7 -> "7" [] d = 8 -> "8" [] d = 9 -> "9"

RECURSIVE NatStr(_)
NatStr(n) == IF n < 10 THEN <<Digit(n)>> ELSE NatStr(n \div 10) \o <<Digit(n % 10)>>

\* str(int)
IntStr(n) == IF n < 0 THEN <<"-">> \o NatStr(0 - n) ELSE NatStr(n)

\* UTF-8: a byte below 128 is the character with that code, a byte of 255
\* occurs in no valid UTF-8 sequence.
Utf8Valid(b) == \A i \in 1..Len(b) : b[i] < 128
CharOf(c) == CASE c = 97 -> "a" [] c = 32 -> " " [] OTHER -> "?"
CodeOf(ch) == CASE ch = "a" -> 97 [] ch = " " -> 32 [] OTHER -> 63
Utf8Decode(b) == [i \in 1..Len(b) |-> CharOf(b[i])]
Utf8Encode(s) == [i \in 1..Len(s) |-> CodeOf(s[i])]

\* uuid.UUID(text): hexadecimal digits in either case, canonical form lower case
UuidTexts == {<<"a">>, <<"A">>}
LowerChar(ch) == IF ch = "A" THEN "a" ELSE ch
UuidParse(s) == [i \in 1..Len(s) |-> LowerChar(s[i])]

\* tagged values as model_dump(mode='json') produces them
\* (one slot per Python type, the tag t naming the slot in use)
JBool(x) == [t |-> "bool", b |-> x, i |-> 0, s |-> <<>>, l |-> ""]
JInt(x) == [t |-> "int", b |-> FALSE, i |-> x, s |-> <<>>, l |-> ""]
JStr(x) == [t |-> "str", b |-> FALSE, i |-> 0, s |-> x, l |-> ""]
JLit(x) == [t |-> "literal", b |-> FALSE, i |-> 0, s |-> <<>>, l |-> x]

NotificationKind ==
    {<<"s", "t", "r">>, <<"u", "6", "4">>, <<"u", "u", "i", "d">>, <<"u", "l", "i", "d">>}

(***************************************************************************)
(* models.py: request models                                                *)
(***************************************************************************)
Valid(r) == [ok |-> TRUE, req |-> r]
Invalid(e) == [ok |-> FALSE, err |-> e]

CountSet(r, names) == Cardinality({f \in names : r[f] # None})

\* Annotated[int, Field(gt=0)]: ContestId, SubmitId, UserId, ProblemId, ...
PositiveOpt(o) == o = None \/ Get(o) > 0

\* ---- NotificationTarget ------------------------------------------------
\* NotificationTarget(driver=..., kind=..., queue=...): the three fields are
\* required; queue is stripped (str_strip_whitespace) before min_length=1 is
\* checked, and _normalize_queue strips it again and rejects an empty one.
\* max_length=128 is beyond every queue drawn here.
NotificationTarget(kw) ==
    IF ~( /\ DOMAIN kw \subseteq {"driver", "kind", "queue"}
          /\ kw.driver # None /\ Get(kw.driver) > 0
          /\ kw.kind # None /\ Get(kw.kind) \in NotificationKind
          /\ kw.queue # None /\ Len(Strip(Get(kw.queue))) >= 1 )
    THEN Invalid("field")
    ELSE LET queue == Strip(Strip(Get(kw.queue)))
         IN  IF queue = <<>> THEN Invalid("queue")
             ELSE Valid([driver |-> kw.driver, kind |-> kw.kind, queue |-> Some(queue)])

\* ---- SubmitRunRequest --------------------------------------------------
\* Modelled fields.  The optional scalars sender_user_login, sender_user_id,
\* sender_ip, sender_ssl_flag, variant, eoln_type, not_ok_is_cf, rejudge_flag,
\* ext_user_kind and ext_user take part in no model validator and are dumped
\* like is_visible (bool) and problem (int); they are left absent.
SubmitRunFields ==
    {"contest_id", "problem_uuid", "problem_name", "problem", "language_name",
     "lang_id", "is_visible", "file", "text_form",
     "notify_driver", "notify_kind", "notify_queue"}

\* field-level validation: no unknown argument (extra='forbid'), types, ranges
SubmitRunFieldsOk(kw) ==
    /\ DOMAIN kw \subseteq SubmitRunFields
    /\ kw.contest_id # None /\ Get(kw.contest_id) > 0
    /\ kw.problem_uuid # None => Get(kw.problem_uuid) \in UuidTexts
    /\ PositiveOpt(kw.problem)
    /\ kw.notify_kind # None => Get(kw.notify_kind) \in NotificationKind

LangIdNorm(o) ==
    IF o = None THEN None
    ELSE IF Get(o).t = "str" THEN Some(JStr(Strip(Get(o).s))) ELSE o

SubmitRunNormalize(kw) ==
    [action |-> "submit-run",
     contest_id |-> kw.contest_id,
     problem_uuid |-> IF kw.problem_uuid = None THEN None
                      ELSE Some(UuidParse(Get(kw.problem_uuid))),
     problem_name |-> StripOpt(kw.problem_name),
     problem |-> kw.problem,
     language_name |-> StripOpt(kw.language_name),
     lang_id |-> LangIdNorm(kw.lang_id),
     is_visible |-> kw.is_visible,
     file |-> kw.file,
     text_form |-> StripOpt(kw.text_form),
     notify_driver |-> kw.notify_driver,
     notify_kind |-> kw.notify_kind,
     notify_queue |-> StripOpt(kw.notify_queue)]

\* a selector check that only rejects the absence of a selector
EnsureProblemSelectorLax(r) ==
    CountSet(r, {"problem_uuid", "problem_name", "problem"}) >= 1

\* SubmitRunRequest._ensure_problem_selector
EnsureProblemSelector(r) ==
    CountSet(r, {"problem_uuid", "problem_name", "problem"}) = 1

\* a selector check that only rejects the absence of a selector
EnsureLanguageSelectorLax(r) == ~(r.language_name = None /\ r.lang_id = None)

\* SubmitRunRequest._ensure_language_selector
EnsureLanguageSelector(r) == (r.language_name = None) # (r.lang_id = None)

\* SubmitRunRequest._ensure_source_payload
EnsureSourcePayload(r) == (r.file = None) # (r.text_form = None)

\* a triplet check that only asks for a queue when a driver is given
EnsureNotificationTripletLax(r) == r.notify_driver # None => r.notify_queue # None

\* _ensure_notification_triplet (both submit models)
EnsureNotificationTriplet(r) ==
    LET provided == {"notify_driver", "notify_kind", "notify_queue"}
    IN  (\E f \in provided : r[f] # None) => (\A f \in provided : r[f] # None)

\* SubmitRunRequest(**kw): field validation, then the model validators in
\* their order of definition; the first one to raise ends the construction.
SubmitRunRequest(kw) ==
    IF ~SubmitRunFieldsOk(kw) THEN Invalid("field")
    ELSE LET r == SubmitRunNormalize(kw)
         IN  IF ~EnsureProblemSelector(r) THEN Invalid("problem_selector")
             ELSE IF ~EnsureLanguageSelector(r) THEN Invalid("language_selector")
             ELSE IF ~EnsureSourcePayload(r) THEN Invalid("source_payload")
             ELSE IF ~EnsureNotificationTriplet(r) THEN Invalid("notification_triplet")
             ELSE Valid(r)

\* ---- SubmitRunInputRequest ---------------------------------------------
SubmitRunInputFields ==
    {"contest_id", "prob_id", "lang_id", "file", "text_form", "file_input",
     "text_form_input", "notify_driver", "notify_kind", "notify_queue"}

SubmitRunInputFieldsOk(kw) ==
    /\ DOMAIN kw \subseteq SubmitRunInputFields
    /\ kw.contest_id # None /\ Get(kw.contest_id) > 0
    /\ kw.prob_id # None
    /\ kw.lang_id # None
    /\ kw.notify_kind # None => Get(kw.notify_kind) \in NotificationKind

SubmitRunInputNormalize(kw) ==
    [action |-> "submit-run-input",
     contest_id |-> kw.contest_id,
     prob_id |-> LangIdNorm(kw.prob_id),
     lang_id |-> LangIdNorm(kw.lang_id),
     file |-> kw.file,
     text_form |-> StripOpt(kw.text_form),
     file_input |-> kw.file_input,
     text_form_input |-> StripOpt(kw.text_form_input),
     notify_driver |-> kw.notify_driver,
     notify_kind |-> kw.notify_kind,
     notify_queue |-> StripOpt(kw.notify_queue)]

\* SubmitRunInputRequest._ensure_source_payload
EnsureInputSourcePayload(r) == (r.file = None) # (r.text_form = None)

\* SubmitRunInputRequest._ensure_stdin_payload
EnsureStdinPayload(r) == (r.file_input = None) # (r.text_form_input = None)

SubmitRunInputRequest(kw) ==
    IF ~SubmitRunInputFieldsOk(kw) THEN Invalid("field")
    ELSE LET r == SubmitRunInputNormalize(kw)
         IN  IF ~EnsureInputSourcePayload(r) THEN Invalid("source_payload")
             ELSE IF ~EnsureStdinPayload(r) THEN Invalid("stdin_payload")
             ELSE IF ~EnsureNotificationTriplet(r) THEN Invalid("notification_triplet")
             ELSE Valid(r)

\* ---- GetSubmitRequest, GetUserRequest ---------------------------------
GetSubmitFields == {"contest_id", "submit_id"}

GetSubmitRequest(kw) ==
    IF /\ DOMAIN kw \subseteq GetSubmitFields
       /\ kw.contest_id # None /\ Get(kw.contest_id) > 0
       /\ kw.submit_id # None /\ Get(kw.submit_id) > 0
    THEN Valid([action |-> "get-submit", contest_id |-> kw.contest_id,
                submit_id |-> kw.submit_id])
    ELSE Invalid("field")

GetUserFields == {"contest_id", "other_user_id", "other_user_login", "global_"}

\* a selector check that only rejects the absence of a selector
EnsureSelectorLax(r) == ~(r.other_user_id = None /\ r.other_user_login = None)

\* GetUserRequest._ensure_selector
EnsureSelector(r) == (r.other_user_id = None) # (r.other_user_login = None)

GetUserRequest(kw) ==
    IF ~(/\ DOMAIN kw \subseteq GetUserFields
         /\ kw.contest_id # None /\ Get(kw.contest_id) > 0
         /\ PositiveOpt(kw.other_user_id))
    THEN Invalid("field")
    ELSE LET r == [action |-> "get-user", contest_id |-> kw.contest_id,
                   other_user_id |-> kw.other_user_id,
                   other_user_login |-> StripOpt(kw.other_user_login),
                   global_ |-> kw.global_]
         IN  IF ~EnsureSelector(r) THEN Invalid("selector") ELSE Valid(r)

(***************************************************************************)
(* models.py: reply models                                                  *)
(*                                                                          *)
(* A JSON object is a function from the keys it has; a key that is absent   *)
(* is not in its domain.  The values on the wire are of the type their key  *)
(* is declared with (ints for *_id, a boolean for ok, objects for result    *)
(* and error); null values and values of a wrong JSON type are not drawn.   *)
(***************************************************************************)
Actions == {"submit-run", "submit-run-input", "get-submit", "get-user"}

\* a model class: its fields, and which of them are required, constrained to
\* be positive (gt=0), stripped (str) or parsed (UUID)
EjudgeErrorModel ==
    [name |-> "EjudgeError",
     fields |-> {"num", "symbol", "message"}, required |-> {"num", "symbol"},
     positive |-> {}, text |-> {}, uuid |-> {}]

SubmitRunResultModel ==
    [name |-> "SubmitRunResult",
     fields |-> {"run_id", "run_uuid"}, required |-> {"run_id"},
     positive |-> {"run_id"}, text |-> {}, uuid |-> {"run_uuid"}]

SubmitRunInputResultModel ==
    [name |-> "SubmitRunInputResult",
     fields |-> {"submit_id"}, required |-> {"submit_id"},
     positive |-> {"submit_id"}, text |-> {}, uuid |-> {}]

\* SubmitDetails: the fields make_submit_details sets; the other optional
\* fields (ext_user, notify_*, compiler_output, time, ...) are left absent.
SubmitDetailsModel ==
    [name |-> "SubmitDetails",
     fields |-> {"submit_id", "user_id", "prob_id", "lang_id", "status",
                 "status_str", "exit_code", "term_signal"},
     required |-> {"submit_id", "user_id", "prob_id", "lang_id", "status",
                   "status_str"},
     positive |-> {"submit_id", "user_id", "prob_id", "lang_id"},
     text |-> {"status_str"}, uuid |-> {}]

\* UserProfile: the fields make_user_profile sets, and email as one of the
\* optional ones.
UserProfileModel ==
    [name |-> "UserProfile",
     fields |-> {"user_id", "user_login", "email"},
     required |-> {"user_id", "user_login"},
     positive |-> {"user_id"}, text |-> {"user_login", "email"}, uuid |-> {}]

ResultModel(action) ==
    CASE action = "submit-run" -> SubmitRunResultModel
      [] action = "submit-run-input" -> SubmitRunInputResultModel
      [] action = "get-submit" -> SubmitDetailsModel
      [] action = "get-user" -> UserProfileModel

\* SubmitRunReply, SubmitRunInputReply, GetSubmitReply, GetUserReply
ReplyModelName(action) ==
    CASE action = "submit-run" -> "SubmitRunReply"
      [] action = "submit-run-input" -> "SubmitRunInputReply"
      [] action = "get-submit" -> "GetSubmitReply"
      [] action = "get-user" -> "GetUserReply"

EnvelopeFields ==
    {"ok", "action", "server_time", "reply_id", "request_id", "result", "error"}

Parsed(v) == [ok |-> TRUE, val |-> v]
ParseFailure == [ok |-> FALSE]

\* a validation that ignores the keys a model class does not define
ObjectOkIgnoreExtra(obj, m) ==
    /\ m.required \subseteq DOMAIN obj
    /\ \A k \in DOMAIN obj \cap m.positive : obj[k] > 0
    /\ \A k \in DOMAIN obj \cap m.uuid : obj[k] \in UuidTexts

\* whether a JSON object satisfies a model class (extra='forbid')
ObjectOk(obj, m) ==
    /\ DOMAIN obj \subseteq m.fields
    /\ m.required \subseteq DOMAIN obj
    /\ \A k \in DOMAIN obj \cap m.positive : obj[k] > 0
    /\ \A k \in DOMAIN obj \cap m.uuid : obj[k] \in UuidTexts

FieldValue(m, k, v) ==
    IF k \in m.text THEN Strip(v) ELSE IF k \in m.uuid THEN UuidParse(v) ELSE v

\* the instance built from a valid object: every field, absent ones as None
ObjectInstance(obj, m) ==
    [k \in m.fields |-> IF k \in DOMAIN obj THEN Some(FieldValue(m, k, obj[k])) ELSE None]

\* Model.model_validate(obj) / Model(**obj)
ValidateObject(obj, m) ==
    IF ObjectOk(obj, m) THEN Parsed(ObjectInstance(obj, m)) ELSE ParseFailure

\* ReplyModel.model_validate(payload): EjudgeReply with `result` narrowed to
\* the action's result class; ok and action are required.
ValidateReply(obj, action) ==
    LET res == IF "result" \in DOMAIN obj
               THEN ValidateObject(obj["result"], ResultModel(action))
               ELSE Parsed(<<>>)
        err == IF "error" \in DOMAIN obj
               THEN ValidateObject(obj["error"], EjudgeErrorModel)
               ELSE Parsed(<<>>)
    IN  IF /\ DOMAIN obj \subseteq EnvelopeFields
           /\ {"ok", "action"} \subseteq DOMAIN obj
           /\ res.ok /\ err.ok
        THEN Parsed([ok |-> obj["ok"],
                     action |-> obj["action"],
                     server_time |-> IF "server_time" \in DOMAIN obj
                                     THEN Some(obj["server_time"]) ELSE None,
                     reply_id |-> IF "reply_id" \in DOMAIN obj
                                  THEN Some(obj["reply_id"]) ELSE None,
                     request_id |-> IF "request_id" \in DOMAIN obj
                                    THEN Some(obj["request_id"]) ELSE None,
                     result |-> IF "result" \in DOMAIN obj THEN Some(res.val) ELSE None,
                     error |-> IF "error" \in DOMAIN obj THEN Some(err.val) ELSE None])
        ELSE ParseFailure

\* an instance as JSON, model_dump_json(by_alias=True, exclude_none=True)
\* a dump that keeps the required fields only
DumpObjectRequired(inst, m) == [k \in m.required |-> Get(inst[k])]

DumpObject(inst, m) == [k \in {f \in m.fields : inst[f] # None} |-> Get(inst[k])]

DumpReply(reply, action) ==
    LET present == {"ok", "action"} \cup
                   {k \in EnvelopeFields \ {"ok", "action"} : reply[k] # None}
    IN  [k \in present |->
            CASE k \in {"ok", "action"} -> reply[k]
              [] k = "result" -> DumpObject(Get(reply[k]), ResultModel(action))
              [] k = "error" -> DumpObject(Get(reply[k]), EjudgeErrorModel)
              [] OTHER -> Get(reply[k])]

(***************************************************************************)
(* client.py: payload encoders                                              *)
(***************************************************************************)
\* how model_dump(mode='json') renders a field of each declared type
FieldType(k) ==
    CASE k \in {"contest_id", "problem", "notify_driver", "submit_id", "other_user_id"}
            -> "int"
      [] k \in {"is_visible", "global_"} -> "bool"
      [] k \in {"file", "file_input"} -> "bytes"
      [] k \in {"lang_id", "prob_id"} -> "union"
      [] k = "action" -> "literal"
      [] OTHER -> "str"

\* bytes are rendered as str by decoding them as UTF-8 (ser_json_bytes='utf8')
DumpValue(k, v) ==
    CASE FieldType(k) = "int" -> JInt(v)
      [] FieldType(k) = "bool" -> JBool(v)
      [] FieldType(k) = "bytes" -> JStr(Utf8Decode(v))
      [] FieldType(k) = "union" -> v
      [] FieldType(k) = "literal" -> JLit(v)
      [] OTHER -> JStr(v)

Dumped(d) == [ok |-> TRUE, dict |-> d]
DumpError == [ok |-> FALSE, error |-> "UnicodeDecodeError"]

\* the name a field is dumped under with by_alias=True: Field(alias='global')
WireName(k) == IF k = "global_" THEN "global" ELSE k

\* a dump that keys every field by its attribute name (by_alias=False)
ModelDumpByName(req, fields) ==
    LET present == {k \in fields : req[k] # None}
    IN  IF \E k \in present : FieldType(k) = "bytes" /\ ~Utf8Valid(Get(req[k]))
        THEN DumpError
        ELSE Dumped([k \in present \cup {"action"} |->
                        IF k = "action" THEN DumpValue(k, req.action)
                        ELSE DumpValue(k, Get(req[k]))])

\* request.model_dump(mode='json', by_alias=True, exclude_none=True); it raises
\* when a bytes field does not hold valid UTF-8.
ModelDump(req, fields) ==
    LET present == {k \in fields : req[k] # None} \cup {"action"}
        FieldOf(w) == CHOOSE k \in present : WireName(k) = w
    IN  IF \E k \in present \ {"action"} :
               FieldType(k) = "bytes" /\ ~Utf8Valid(Get(req[k]))
        THEN DumpError
        ELSE Dumped([w \in {WireName(k) : k \in present} |->
                        IF w = "action" THEN DumpValue(w, req.action)
                        ELSE DumpValue(FieldOf(w), Get(req[FieldOf(w)]))])

\* a stringification by str() alone
StringifyPython(value) ==
    CASE value.t = "bool" -> IF value.b THEN <<"T", "r", "u", "e">>
                             ELSE <<"F", "a", "l", "s", "e">>
      [] value.t = "int" -> IntStr(value.i)
      [] value.t = "literal" -> value.l
      [] OTHER -> value.s

\* _stringify
Stringify(value) ==
    CASE value.t = "bool" -> IF value.b THEN <<"1">> ELSE <<"0">>
      [] value.t = "int" -> IntStr(value.i)
      [] value.t = "literal" -> value.l
      [] OTHER -> value.s

FormPayload(data, files) == [ok |-> TRUE, data |-> data, files |-> files]

\* the part of a payload built from one (binary, text) pair of carriers
CarrierFiles(payload, binary, filename) ==
    [k \in {binary} \cap DOMAIN payload |-> <<filename, payload[k].s>>]

\* an encoder that leaves `action` among the body fields
PrepareSubmitRunPayloadKeepAction(req) ==
    LET d == ModelDump(req, SubmitRunFields)
    IN  IF ~d.ok THEN d
        ELSE LET payload == d.dict
                 rest == DOMAIN payload \ {"file", "text_form"}
                 text == {"text_form"} \cap DOMAIN payload
             IN  FormPayload([k \in text \cup rest |->
                                 IF k \in text THEN payload[k].s
                                 ELSE Stringify(payload[k])],
                             CarrierFiles(payload, "file", "solution"))

\* _prepare_submit_run_payload
PrepareSubmitRunPayload(req) ==
    LET d == ModelDump(req, SubmitRunFields)
    IN  IF ~d.ok THEN d
        ELSE LET payload == [k \in DOMAIN d.dict \ {"action"} |-> d.dict[k]]
                 rest == DOMAIN payload \ {"file", "text_form"}
                 text == {"text_form"} \cap DOMAIN payload
             IN  FormPayload([k \in text \cup rest |->
                                 IF k \in text THEN payload[k].s
                                 ELSE Stringify(payload[k])],
                             CarrierFiles(payload, "file", "solution"))

\* _prepare_submit_run_input_payload
PrepareSubmitRunInputPayload(req) ==
    LET d == ModelDump(req, SubmitRunInputFields)
    IN  IF ~d.ok THEN d
        ELSE LET payload == [k \in DOMAIN d.dict \ {"action"} |-> d.dict[k]]
                 rest == DOMAIN payload \
                            {"file", "text_form", "file_input", "text_form_input"}
                 text == {"text_form", "text_form_input"} \cap DOMAIN payload
             IN  FormPayload([k \in text \cup rest |->
                                 IF k \in text THEN payload[k].s
                                 ELSE Stringify(payload[k])],
                             CarrierFiles(payload, "file", "solution")
                                @@ CarrierFiles(payload, "file_input", "stdin"))

(***************************************************************************)
(* Inputs of the constructors                                               *)
(***************************************************************************)
OptOf(S) == {None} \cup {Some(v) : v \in S}

\* the notification triplet: absent, or present and well formed
NotifySamples ==
    {[driver |-> None, kind |-> None, queue |-> None],
     [driver |-> Some(1), kind |-> Some(<<"s", "t", "r">>), queue |-> Some(<<"a">>)]}

IdSamples == {JStr(<<"a">>), JInt(3)}

SubmitRunKws ==
    {[contest_id |-> c, problem_uuid |-> pu, problem_name |-> pn, problem |-> p,
      language_name |-> ln, lang_id |-> li, is_visible |-> vis, file |-> f,
      text_form |-> tf, notify_driver |-> n.driver, notify_kind |-> n.kind,
      notify_queue |-> n.queue] :
        c \in {Some(0), Some(7)}, pu \in OptOf({<<"A">>}), pn \in OptOf({<<"a">>}),
        p \in OptOf({5}), ln \in OptOf({<<"a">>}), li \in OptOf(IdSamples),
        vis \in OptOf(BOOLEAN), f \in OptOf(ByteStrings), tf \in OptOf(Texts),
        n \in NotifySamples}

SubmitRunInputKws ==
    {[contest_id |-> c, prob_id |-> Some(JStr(<<"a">>)), lang_id |-> Some(JInt(3)),
      file |-> f, text_form |-> tf, file_input |-> fi, text_form_input |-> ti,
      notify_driver |-> n.driver, notify_kind |-> n.kind, notify_queue |-> n.queue] :
        c \in {Some(0), Some(7)}, f \in OptOf(ByteStrings), tf \in OptOf(Texts),
        fi \in OptOf(ByteStrings), ti \in OptOf(Texts), n \in NotifySamples}

\* the notification triplet in every combination of presence, with queues
\* that are empty or whitespace-only among them
NotifyCombos ==
    {[driver |-> d, kind |-> k, queue |-> q] :
        d \in OptOf({1}), k \in OptOf({<<"s", "t", "r">>}), q \in OptOf(Texts)}

\* otherwise valid submit requests carrying each of those triplets
SubmitRunNotifyKws ==
    {[contest_id |-> Some(7), problem_uuid |-> None, problem_name |-> None,
      problem |-> Some(5), language_name |-> None, lang_id |-> Some(JInt(3)),
      is_visible |-> None, file |-> None, text_form |-> Some(<<"a">>),
      notify_driver |-> n.driver, notify_kind |-> n.kind, notify_queue |-> n.queue] :
        n \in NotifyCombos}

SubmitRunInputNotifyKws ==
    {[contest_id |-> Some(7), prob_id |-> Some(JStr(<<"a">>)), lang_id |-> Some(JInt(3)),
      file |-> Some(<<97>>), text_form |-> None, file_input |-> None,
      text_form_input |-> Some(<<"a">>),
      notify_driver |-> n.driver, notify_kind |-> n.kind, notify_queue |-> n.queue] :
        n \in NotifyCombos}

NotificationTargetKws ==
    {[driver |-> d, kind |-> k, queue |-> q] :
        d \in {Some(0), Some(1)}, k \in OptOf({<<"s", "t", "r">>}), q \in OptOf(Texts)}

GetSubmitKws ==
    {[contest_id |-> c, submit_id |-> sid] :
        c \in {None, Some(0 - 1), Some(0), Some(7)},
        sid \in {None, Some(0 - 1), Some(0), Some(5)}}

GetUserKws ==
    {[contest_id |-> c, other_user_id |-> uid, other_user_login |-> login,
      global_ |-> g] :
        c \in {Some(0), Some(7)}, uid \in OptOf({0, 3}), login \in OptOf(Texts),
        g \in OptOf(BOOLEAN)}

\* keyword arguments with one the model does not define
WithExtra(kw) ==
    [k \in DOMAIN kw \cup {"bogus"} |-> IF k = "bogus" THEN Some(1) ELSE kw[k]]

\* otherwise valid arguments of each constructor, with such an argument added
ExtraKws(model) ==
    CASE model = "submit-run" ->
           {WithExtra(kw) : kw \in {k \in SubmitRunNotifyKws :
               k.notify_driver = None /\ k.notify_kind = None /\ k.notify_queue = None}}
      [] model = "submit-run-input" ->
           {WithExtra(kw) : kw \in {k \in SubmitRunInputNotifyKws :
               k.notify_driver = None /\ k.notify_kind = None /\ k.notify_queue = None}}
      [] model = "notification-target" ->
           {WithExtra([driver |-> Some(1), kind |-> Some(<<"s", "t", "r">>),
                       queue |-> Some(<<"a">>)])}
      [] model = "get-submit" ->
           {WithExtra([contest_id |-> Some(7), submit_id |-> Some(5)])}
      [] model = "get-user" ->
           {WithExtra([contest_id |-> Some(7), other_user_id |-> Some(3),
                       other_user_login |-> None, global_ |-> None])}

(***************************************************************************)
(* SpecReq: construct a request from keyword arguments, then encode it      *)
(***************************************************************************)
NetIdle ==
    /\ client = <<>>
    /\ transport = "mock"
    /\ registered = <<>>
    /\ responses = <<>>
    /\ calls = <<>>
    /\ arrived = 0
    /\ issued = 0
    /\ cur = <<>>
    /\ tasks = <<>>

InitReq ==
    /\ phase = "new"
    /\ kind = "none"
    /\ raw = <<>>
    /\ built = <<>>
    /\ encoded = <<>>
    /\ NetIdle
    /\ app = <<>>

ConstructSubmitRun ==
    /\ phase = "new"
    /\ \E kw \in SubmitRunKws \cup SubmitRunNotifyKws \cup ExtraKws("submit-run") :
          /\ raw' = kw
          /\ built' = SubmitRunRequest(kw)
    /\ kind' = "submit-run"
    /\ phase' = "built"
    /\ UNCHANGED <<encoded, netVars, webVars>>

ConstructSubmitRunInput ==
    /\ phase = "new"
    /\ \E kw \in SubmitRunInputKws \cup SubmitRunInputNotifyKws
                    \cup ExtraKws("submit-run-input") :
          /\ raw' = kw
          /\ built' = SubmitRunInputRequest(kw)
    /\ kind' = "submit-run-input"
    /\ phase' = "built"
    /\ UNCHANGED <<encoded, netVars, webVars>>

ConstructNotificationTarget ==
    /\ phase = "new"
    /\ \E kw \in NotificationTargetKws \cup ExtraKws("notification-target") :
          /\ raw' = kw
          /\ built' = NotificationTarget(kw)
    /\ kind' = "notification-target"
    /\ phase' = "built"
    /\ UNCHANGED <<encoded, netVars, webVars>>

ConstructGetSubmit ==
    /\ phase = "new"
    /\ \E kw \in GetSubmitKws \cup ExtraKws("get-submit") :
          /\ raw' = kw
          /\ built' = GetSubmitRequest(kw)
    /\ kind' = "get-submit"
    /\ phase' = "built"
    /\ UNCHANGED <<encoded, netVars, webVars>>

ConstructGetUser ==
    /\ phase = "new"
    /\ \E kw \in GetUserKws \cup ExtraKws("get-user") :
          /\ raw' = kw
          /\ built' = GetUserRequest(kw)
    /\ kind' = "get-user"
    /\ phase' = "built"
    /\ UNCHANGED <<encoded, netVars, webVars>>

EncodeSubmitRun ==
    /\ phase = "built" /\ kind = "submit-run" /\ built.ok
    /\ encoded' = PrepareSubmitRunPayload(built.req)
    /\ phase' = "encoded"
    /\ UNCHANGED <<kind, raw, built, netVars, webVars>>

EncodeSubmitRunInput ==
    /\ phase = "built" /\ kind = "submit-run-input" /\ built.ok
    /\ encoded' = PrepareSubmitRunInputPayload(built.req)
    /\ phase' = "encoded"
    /\ UNCHANGED <<kind, raw, built, netVars, webVars>>

\* the constructor of each request model
Construct(model, kw) ==
    CASE model = "submit-run" -> SubmitRunRequest(kw)
      [] model = "submit-run-input" -> SubmitRunInputRequest(kw)
      [] model = "notification-target" -> NotificationTarget(kw)
      [] model = "get-submit" -> GetSubmitRequest(kw)
      [] model = "get-user" -> GetUserRequest(kw)

\* the fields the caller may clear on a constructed instance
ReassignFields ==
    {"file", "text_form", "text_form_input", "notify_queue", "other_user_id", "queue"}

\* `instance.field = None` on a constructed instance: the models are not
\* frozen and do not validate assignments, so the attribute is simply set
Reassign ==
    /\ phase = "built" /\ built.ok
    /\ built = Construct(kind, raw)
    /\ \E f \in ReassignFields \cap DOMAIN built.req :
          /\ built.req[f] # None
          /\ built' = [built EXCEPT !.req[f] = None]
    /\ UNCHANGED <<phase, kind, raw, encoded, netVars, webVars>>

NextReq ==
    \/ ConstructSubmitRun
    \/ ConstructSubmitRunInput
    \/ ConstructNotificationTarget
    \/ ConstructGetSubmit
    \/ ConstructGetUser
    \/ Reassign
    \/ EncodeSubmitRun
    \/ EncodeSubmitRunInput

SpecReq == InitReq /\ [][NextReq]_vars

(***************************************************************************)
(* mocks.py: reply helpers and the mock transport harness                   *)
(***************************************************************************)
SuccessReply(action, result) ==
    [ok |-> TRUE, action |-> action, server_time |-> None, reply_id |-> None,
     request_id |-> None, result |-> Some(result), error |-> None]

\* make_submit_run_reply(run_id=..., run_uuid=...)
MakeSubmitRunReply(run_id, run_uuid) ==
    LET kw == [k \in {"run_id"} \cup (IF run_uuid = None THEN {} ELSE {"run_uuid"}) |->
                  IF k = "run_id" THEN run_id ELSE Get(run_uuid)]
    IN  SuccessReply("submit-run", ValidateObject(kw, SubmitRunResultModel).val)

\* make_submit_run_input_reply(submit_id=...)
MakeSubmitRunInputReply(submit_id) ==
    SuccessReply("submit-run-input",
                 ValidateObject([submit_id |-> submit_id], SubmitRunInputResultModel).val)

\* make_submit_details(submit_id=..., status=..., status_str=...)
MakeSubmitDetails(submit_id, status, status_str) ==
    ValidateObject([submit_id |-> submit_id, user_id |-> 1, prob_id |-> 1,
                    lang_id |-> 1, status |-> status, status_str |-> status_str,
                    exit_code |-> 0, term_signal |-> 0], SubmitDetailsModel).val

\* make_get_submit_reply(details)
MakeGetSubmitReply(details) == SuccessReply("get-submit", details)

\* make_user_profile(user_id=..., user_login=...)
MakeUserProfile(user_id, user_login) ==
    ValidateObject([user_id |-> user_id, user_login |-> user_login], UserProfileModel).val

\* make_get_user_reply(profile)
MakeGetUserReply(profile) == SuccessReply("get-user", profile)

\* what a keyword argument of create_mock_transport can be: a reply model, a
\* dict, or a (status, payload) tuple of an int and one of those
RegModel(reply) == [tuple |-> FALSE, status |-> 0, model |-> Some(reply), dict |-> None]
RegDict(obj) == [tuple |-> FALSE, status |-> 0, model |-> None, dict |-> Some(obj)]
RegTuple(status, reg) == [reg EXCEPT !.tuple = TRUE, !.status = status]

DefaultStatus == 200

\* _coerce_payload
CoercePayload(value, action) ==
    <<IF value.tuple THEN value.status ELSE DefaultStatus,
      IF value.model # None THEN DumpReply(Get(value.model), action) ELSE Get(value.dict)>>

\* create_mock_transport(submit_run=..., ...): the `responses` mapping
CreateResponses(kwargs) ==
    [a \in {b \in Actions : kwargs[b] # None} |-> CoercePayload(Get(kwargs[a]), a)]

\* RecordedCall(method=..., url=..., headers=..., content=...)
RecordedCall(request) ==
    [method |-> request.method, url |-> [params |-> request.params],
     headers |-> request.headers, content |-> request.content]

HttpResponse(status, obj) == [kind |-> "http", status |-> status, json |-> TRUE, obj |-> obj]
TextResponse(status) == [kind |-> "http", status |-> status, json |-> FALSE, obj |-> <<>>]
NetworkError == [kind |-> "error", status |-> 0, json |-> FALSE, obj |-> <<>>]

\* a recording that skips the requests without `action`
RecordIfDispatched(log, request) ==
    IF "action" \in DOMAIN request.params THEN Append(log, RecordedCall(request)) ELSE log

\* handler, its first statements: calls.append(recorded)
Record(log, request) == Append(log, RecordedCall(request))

\* a dispatch that treats a missing `action` as an unhandled one
DispatchNoMissingAction(resp, request) ==
    IF "action" \notin DOMAIN request.params \/ request.params["action"] \notin DOMAIN resp
    THEN HttpResponse(404, [ok |-> FALSE,
                            error |-> [symbol |-> "unhandled-action",
                                       message |-> IF "action" \in DOMAIN request.params
                                                   THEN request.params["action"] ELSE ""]])
    ELSE HttpResponse(resp[request.params["action"]][1], resp[request.params["action"]][2])

\* handler, after the recording: the response it returns
Dispatch(resp, request) ==
    IF "action" \notin DOMAIN request.params
    THEN HttpResponse(400, [ok |-> FALSE, error |-> [symbol |-> "missing-action"]])
    ELSE LET action == request.params["action"]
         IN  IF action \notin DOMAIN resp
             THEN HttpResponse(404, [ok |-> FALSE,
                                     error |-> [symbol |-> "unhandled-action",
                                                message |-> action]])
             ELSE HttpResponse(resp[action][1], resp[action][2])

(***************************************************************************)
(* client.py: EjudgeClient                                                  *)
(***************************************************************************)
ApiToken == <<"t">>

\* self._authorization = f'Bearer AQAA{api_token}'
Authorization ==
    <<"B", "e", "a", "r", "e", "r", " ", "A", "Q", "A", "A">> \o ApiToken

Text(s) == [k |-> "text", s |-> s, i |-> 0]
Named(k, s) == [k |-> k, s |-> s, i |-> 0]
Number(k, i) == [k |-> k, s |-> "", i |-> i]

Outcome(k, reply, message) == [kind |-> k, reply |-> reply, message |-> message]

\* an EjudgeReplyError that stores the sentinel block in the envelope it carries
EjudgeReplyErrorRepaired(reply) ==
    LET error == IF reply.error # None THEN Get(reply.error)
                 ELSE [num |-> Some(0 - 1), symbol |-> Some("unknown"),
                       message |-> Some("No error payload provided by ejudge.")]
        message == IF error.message = None \/ error.message = Some("")
                   THEN "no message" ELSE Get(error.message)
    IN  Outcome("EjudgeReplyError", Some([reply EXCEPT !.error = Some(error)]),
                <<Text("ejudge reported error "), Named("symbol", Get(error.symbol)),
                  Text(" ("), Number("num", Get(error.num)), Text("): "),
                  Named("message", message)>>)

\* EjudgeReplyError(reply)
EjudgeReplyError(reply) ==
    LET error == IF reply.error # None THEN Get(reply.error)
                 ELSE [num |-> Some(0 - 1), symbol |-> Some("unknown"),
                       message |-> Some("No error payload provided by ejudge.")]
        message == IF error.message = None \/ error.message = Some("")
                   THEN "no message" ELSE Get(error.message)
    IN  Outcome("EjudgeReplyError", Some(reply),
                <<Text("ejudge reported error "), Named("symbol", Get(error.symbol)),
                  Text(" ("), Number("num", Get(error.num)), Text("): "),
                  Named("message", message)>>)

\* the query string: {'json': '1', 'action': action}, updated with the
\* stringified params of a GET operation
RequestParams(action, params) ==
    [k \in {"json", "action"} \cup DOMAIN params |->
        IF k \in DOMAIN params THEN Stringify(params[k])
        ELSE IF k = "json" THEN <<"1">> ELSE action]

\* the body httpx builds from data= and files=: multipart when there are
\* files, urlencoded when there are only fields, none otherwise
RequestContent(data, files) ==
    IF DOMAIN files # {}
    THEN [ctype |-> "multipart/form-data", fields |-> data,
          files |-> [k \in DOMAIN files |-> <<files[k][1], Utf8Encode(files[k][2])>>]]
    ELSE IF DOMAIN data # {}
    THEN [ctype |-> "application/x-www-form-urlencoded", fields |-> data, files |-> <<>>]
    ELSE [ctype |-> "", fields |-> <<>>, files |-> <<>>]

\* a merge in which the network client's own header wins
MergedHeaderClientFirst(default, given) == IF default # None THEN default ELSE given

\* headers=headers in self._client.request: the network client merges its
\* default headers with the ones given with the request, which win
MergedHeader(default, given) == IF given # None THEN given ELSE default

RequestHeaders(content) ==
    [k \in {"Authorization"} \cup (IF content.ctype = "" THEN {} ELSE {"content-type"}) |->
        IF k = "Authorization"
        THEN Get(MergedHeader(client.authorization, Some(Authorization)))
        ELSE content.ctype]

\* the request self._client.request(method, ..., params=, data=, files=, headers=) sends
WireRequest(method, action, params, data, files) ==
    LET content == RequestContent(data, files)
    IN  [method |-> method, params |-> RequestParams(action, params),
         headers |-> RequestHeaders(content), content |-> content]

\* a status check that lets every status below 500 through
IsNotServerError(status) == status < 500

\* response.raise_for_status() passes: httpx.Response.is_success
IsSuccess(status) == 200 <= status /\ status <= 299

\* a _parse_reply that does not look at the ok flag
ParseReplyNoOkCheck(response, action) ==
    IF ~response.json
    THEN Outcome("EjudgeClientError", None,
                 <<Text("ejudge response did not contain valid JSON payload.")>>)
    ELSE LET parsed == ValidateReply(response.obj, action)
         IN  IF ~parsed.ok
             THEN Outcome("EjudgeClientError", None,
                          <<Text("Unable to validate ejudge response as "),
                            Named("model", ReplyModelName(action)), Text(".")>>)
             ELSE Outcome("return", Some(parsed.val), <<>>)

\* a _parse_reply that reads the ok flag of the payload before validating it
ParseReplyOkFirst(response, action) ==
    IF ~response.json
    THEN Outcome("EjudgeClientError", None,
                 <<Text("ejudge response did not contain valid JSON payload.")>>)
    ELSE IF "ok" \in DOMAIN response.obj /\ response.obj["ok"] = FALSE
    THEN Outcome("EjudgeReplyError", None, <<Text("ejudge reported error ")>>)
    ELSE LET parsed == ValidateReply(response.obj, action)
         IN  IF ~parsed.ok
             THEN Outcome("EjudgeClientError", None,
                          <<Text("Unable to validate ejudge response as "),
                            Named("model", ReplyModelName(action)), Text(".")>>)
             ELSE Outcome("return", Some(parsed.val), <<>>)

\* _parse_reply
ParseReply(response, action) ==
    IF ~response.json
    THEN Outcome("EjudgeClientError", None,
                 <<Text("ejudge response did not contain valid JSON payload.")>>)
    ELSE LET parsed == ValidateReply(response.obj, action)
         IN  IF ~parsed.ok
             THEN Outcome("EjudgeClientError", None,
                          <<Text("Unable to validate ejudge response as "),
                            Named("model", ReplyModelName(action)), Text(".")>>)
             ELSE IF ~parsed.val.ok THEN EjudgeReplyError(parsed.val)
             ELSE Outcome("return", Some(parsed.val), <<>>)

\* the rest of a client operation once the transport has answered: the
\* except clauses of _request, then _parse_reply
Finish(response, action) ==
    IF response.kind = "error"
    THEN Outcome("EjudgeClientError", None,
                 <<Text("Error communicating with ejudge while performing action "),
                   Named("action", action)>>)
    ELSE IF ~IsSuccess(response.status)
    THEN Outcome("EjudgeClientError", None,
                 <<Text("ejudge returned unexpected HTTP status "),
                   Number("status", response.status), Text(" for action "),
                   Named("action", action)>>)
    ELSE ParseReply(response, action)

(***************************************************************************)
(* Spec: client operations over the mock harness or over another transport  *)
(***************************************************************************)
NoSubmitRunKw ==
    [contest_id |-> None, problem_uuid |-> None, problem_name |-> None,
     problem |-> None, language_name |-> None, lang_id |-> None, is_visible |-> None,
     file |-> None, text_form |-> None, notify_driver |-> None, notify_kind |-> None,
     notify_queue |-> None]

NoSubmitRunInputKw ==
    [contest_id |-> None, prob_id |-> None, lang_id |-> None, file |-> None,
     text_form |-> None, file_input |-> None, text_form_input |-> None,
     notify_driver |-> None, notify_kind |-> None, notify_queue |-> None]

\* the requests the operations are invoked with: a text source, a binary
\* source that is valid UTF-8, and one that is not
SubmitRunSamples ==
    {SubmitRunRequest(kw).req : kw \in
        {[NoSubmitRunKw EXCEPT !.contest_id = Some(7), !.problem = Some(5),
                               !.lang_id = Some(JStr(<<"a">>)),
                               !.text_form = Some(<<"a", " ", "a">>),
                               !.is_visible = Some(TRUE)],
         [NoSubmitRunKw EXCEPT !.contest_id = Some(2), !.problem_name = Some(<<"a">>),
                               !.language_name = Some(<<"a">>),
                               !.is_visible = Some(FALSE),
                               !.file = Some(<<97, 97>>)],
         [NoSubmitRunKw EXCEPT !.contest_id = Some(2), !.problem_uuid = Some(<<"A">>),
                               !.lang_id = Some(JInt(3)),
                               !.file = Some(<<97, 255>>)]}}

SubmitRunInputSamples ==
    {SubmitRunInputRequest(kw).req : kw \in
        {[NoSubmitRunInputKw EXCEPT !.contest_id = Some(9),
                                    !.prob_id = Some(JStr(<<"a">>)),
                                    !.lang_id = Some(JInt(3)),
                                    !.file = Some(<<97>>),
                                    !.text_form_input = Some(<<"a">>)],
         [NoSubmitRunInputKw EXCEPT !.contest_id = Some(9),
                                    !.prob_id = Some(JInt(2)),
                                    !.lang_id = Some(JStr(<<"a">>)),
                                    !.text_form = Some(<<"a">>),
                                    !.text_form_input = Some(<<"a", "a">>)]}}

GetSubmitSamples ==
    {GetSubmitRequest([contest_id |-> Some(1), submit_id |-> Some(555)]).req}

GetUserSamples ==
    {GetUserRequest(kw).req : kw \in
        {[contest_id |-> Some(4), other_user_id |-> None,
          other_user_login |-> Some(<<"a">>), global_ |-> Some(TRUE)],
         [contest_id |-> Some(4), other_user_id |-> Some(12),
          other_user_login |-> None, global_ |-> Some(FALSE)]}}

\* requests sent to the harness by something other than EjudgeClient
RawParams == {[json |-> <<"1">>], [json |-> <<"1">>, action |-> "frobnicate"]}

\* the replies the helpers build
HelperReplies(action) ==
    CASE action = "submit-run" ->
            {MakeSubmitRunReply(42, None), MakeSubmitRunReply(42, Some(<<"A">>))}
      [] action = "submit-run-input" -> {MakeSubmitRunInputReply(314)}
      [] action = "get-submit" ->
            {MakeGetSubmitReply(MakeSubmitDetails(555, 1, <<"a">>)),
             MakeGetSubmitReply(MakeSubmitDetails(300, 0, <<" ", "a">>))}
      [] action = "get-user" ->
            {MakeGetUserReply(MakeUserProfile(1, <<"a">>)),
             MakeGetUserReply(MakeUserProfile(2, <<"a", " ">>))}

\* what create_mock_transport is given for an action: nothing, a helper's
\* reply, and for some actions a reply with ok flipped to False
\* (model_copy(update={'ok': False})), a (status, payload) tuple or a dict
Registrations(action) ==
    {None} \cup {Some(RegModel(r)) : r \in HelperReplies(action)} \cup
    (CASE action = "submit-run" ->
            {Some(RegModel([MakeSubmitRunReply(1, None) EXCEPT !.ok = FALSE])),
             Some(RegTuple(500, RegModel(MakeSubmitRunReply(1, None))))}
       [] action = "submit-run-input" -> {Some(RegDict([detail |-> <<"a">>]))}
       [] action = "get-submit" ->
            {Some(RegTuple(201, RegModel(MakeGetSubmitReply(MakeSubmitDetails(555, 1, <<"a">>)))))}
       [] OTHER -> {})

ErrorBlocks ==
    {[num |-> 5, symbol |-> "bad-thing", message |-> "went wrong"],
     [num |-> 5, symbol |-> "bad-thing"]}

\* the bodies a transport other than the harness answers with
RemoteObjects(action) ==
    LET good == DumpReply(CHOOSE r \in HelperReplies(action) : TRUE, action)
    IN  {good,
         [good EXCEPT !["action"] = "frobnicate"],
         [ok |-> TRUE, action |-> action],
         [ok |-> FALSE, action |-> action],
         [ok |-> FALSE, action |-> action, result |-> good["result"]],
         [ok |-> TRUE, action |-> action, result |-> <<>>],
         [ok |-> TRUE, action |-> action, result |-> good["result"], reply_id |-> 3],
         [ok |-> TRUE, action |-> action, result |-> good["result"], detail |-> <<"a">>],
         [ok |-> FALSE, error |-> [symbol |-> "missing-action"]],
         [ok |-> TRUE, action |-> action,
          result |-> [k \in DOMAIN good["result"] \cup {"detail"} |->
                         IF k = "detail" THEN <<"a">> ELSE good["result"][k]]],
         [ok |-> FALSE, action |-> action,
          error |-> [num |-> 5, symbol |-> "bad-thing", detail |-> <<"a">>]],
         [detail |-> <<"a">>]}
        \cup {[ok |-> FALSE, action |-> action, error |-> e] : e \in ErrorBlocks}
        \cup {[ok |-> TRUE, action |-> action, result |-> good["result"], error |-> e] :
                 e \in ErrorBlocks}

RemoteStatuses == {200, 201, 404, 500}

RemoteResponses(action) ==
    {HttpResponse(st, obj) : st \in RemoteStatuses, obj \in RemoteObjects(action)}
    \cup {TextResponse(st) : st \in RemoteStatuses}

ReqIdle ==
    /\ phase = "off"
    /\ kind = "none"
    /\ raw = <<>>
    /\ built = <<>>
    /\ encoded = <<>>

Idle ==
    [pc |-> "idle", op |-> "none", action |-> "", model |-> None, request |-> None,
     response |-> None, outcome |-> None]

\* a network client (httpx.AsyncClient) handed to the constructor, described
\* by the Authorization default header it may have of its own
InjectedClients == {[authorization |-> None], [authorization |-> Some(<<"x">>)]}

\* the client before its construction.  state: "none" | "ready" | "failed";
\* given: the arguments among http_client, transport that were passed;
\* created: how many network clients the constructor built; closed: whether
\* the network client in use has been closed; aclosed: whether aclose()
\* has run; scope: "none" | "inside" | "exited" for `async with`.
NoClient ==
    [state |-> "none", given |-> {}, mode |-> "", authorization |-> None,
     own_client |-> FALSE, created |-> 0, closed |-> FALSE, aclosed |-> FALSE,
     scope |-> "none"]

ArgsGiven(http_client, custom_transport) ==
    (IF http_client # None THEN {"http_client"} ELSE {}) \cup
    (IF custom_transport # None THEN {"transport"} ELSE {})

\* a constructor that builds its network client before it looks at http_client
EjudgeClientInitCreateFirst(http_client, custom_transport) ==
    IF http_client # None /\ custom_transport # None
    THEN [NoClient EXCEPT !.state = "failed", !.created = 1,
                          !.given = ArgsGiven(http_client, custom_transport)]
    ELSE [state |-> "ready", given |-> ArgsGiven(http_client, custom_transport),
          mode |-> IF http_client # None THEN "http_client"
                   ELSE IF custom_transport # None THEN "transport" ELSE "own",
          authorization |-> IF http_client # None THEN Get(http_client).authorization
                            ELSE None,
          own_client |-> http_client = None,
          created |-> 1,
          closed |-> FALSE, aclosed |-> FALSE, scope |-> "none"]

\* EjudgeClient.__init__(base_url, api_token, transport=..., http_client=...):
\* with both it raises ValueError as its first statement; with neither it
\* builds its own network client over the network, with transport= one over
\* that transport, with http_client= it uses the injected one.
EjudgeClientInit(http_client, custom_transport) ==
    IF http_client # None /\ custom_transport # None
    THEN [NoClient EXCEPT !.state = "failed", !.given = ArgsGiven(http_client, custom_transport)]
    ELSE [state |-> "ready", given |-> ArgsGiven(http_client, custom_transport),
          mode |-> IF http_client # None THEN "http_client"
                   ELSE IF custom_transport # None THEN "transport" ELSE "own",
          authorization |-> IF http_client # None THEN Get(http_client).authorization
                            ELSE None,
          own_client |-> http_client = None,
          created |-> IF http_client = None THEN 1 ELSE 0,
          closed |-> FALSE, aclosed |-> FALSE, scope |-> "none"]

\* an aclose that closes the network client whoever owns it
CloseClientAlways(c) == [c EXCEPT !.closed = TRUE, !.aclosed = TRUE]

\* EjudgeClient.aclose: if self._own_client: await self._client.aclose()
CloseClient(c) == [c EXCEPT !.closed = c.closed \/ c.own_client, !.aclosed = TRUE]

\* the clients the operations are exercised on
ClientSetups ==
    {EjudgeClientInit(None, None), EjudgeClientInit(None, Some("transport"))}
    \cup {EjudgeClientInit(Some(h), None) : h \in InjectedClients}

Init ==
    /\ ReqIdle
    /\ client \in ClientSetups
    /\ transport \in {"mock", "remote"}
    /\ client.mode = "own" => transport = "remote"
    /\ \E sr \in Registrations("submit-run"), sri \in Registrations("submit-run-input"),
          gs \in Registrations("get-submit"), gu \in Registrations("get-user") :
          registered = [a \in Actions |->
                           CASE a = "submit-run" -> sr
                             [] a = "submit-run-input" -> sri
                             [] a = "get-submit" -> gs
                             [] a = "get-user" -> gu]
    /\ transport = "remote" => \A a \in Actions : registered[a] = None
    \* an injected network client over the harness is exercised with an empty harness
    /\ client.mode = "http_client" => \A a \in Actions : registered[a] = None
    /\ responses = CreateResponses(registered)
    /\ calls = <<>>
    /\ arrived = 0
    /\ issued = 0
    /\ cur = Idle
    /\ tasks = <<>>
    /\ app = <<>>

\* an operation is invoked on a constructed client whose network client is open
CanStart ==
    /\ client.state = "ready" /\ ~client.closed
    /\ cur.pc \in {"idle", "done"} /\ issued < MaxCalls

Sent(op, action, model, request) ==
    [pc |-> "sent", op |-> op, action |-> action, model |-> model,
     request |-> Some(request), response |-> None, outcome |-> None]

\* the operation raised before any request was made
Raised(op, action, model, error) ==
    [pc |-> "done", op |-> op, action |-> action, model |-> model, request |-> None,
     response |-> None, outcome |-> Some(Outcome(error, None, <<>>))]

\* submit_run / submit_run_input as it stands at the await of
\* self._client.request, or after the payload encoder raised
PostStarted(op, req, payload) ==
    IF payload.ok
    THEN Sent(op, req.action, Some(req),
              WireRequest("POST", req.action, <<>>, payload.data, payload.files))
    ELSE Raised(op, req.action, Some(req), payload.error)

\* get_submit / get_user as it stands at the await of self._client.request
GetStarted(op, req, fields) ==
    Sent(op, req.action, Some(req),
         WireRequest("GET", req.action, ModelDump(req, fields).dict, <<>>, <<>>))

\* submit_run / submit_run_input up to the await of self._client.request
StartPost(op, req, payload) ==
    /\ cur' = PostStarted(op, req, payload)
    /\ issued' = issued + 1
    /\ UNCHANGED <<reqVars, webVars, client, transport, registered, responses, calls, arrived>>

\* get_submit / get_user up to the await of self._client.request
StartGet(op, req, fields) ==
    /\ cur' = GetStarted(op, req, fields)
    /\ issued' = issued + 1
    /\ UNCHANGED <<reqVars, webVars, client, transport, registered, responses, calls, arrived>>

StartSubmitRun ==
    /\ CanStart
    /\ \E req \in SubmitRunSamples :
          StartPost("submit_run", req, PrepareSubmitRunPayload(req))

StartSubmitRunInput ==
    /\ CanStart
    /\ \E req \in SubmitRunInputSamples :
          StartPost("submit_run_input", req, PrepareSubmitRunInputPayload(req))

StartGetSubmit ==
    /\ CanStart
    /\ \E req \in GetSubmitSamples : StartGet("get_submit", req, GetSubmitFields)

StartGetUser ==
    /\ CanStart
    /\ \E req \in GetUserSamples : StartGet("get_user", req, GetUserFields)

\* a request that reaches the harness without EjudgeClient
RawRequest ==
    /\ CanStart
    /\ transport = "mock"
    /\ \E params \in RawParams :
          cur' = Sent("raw", IF "action" \in DOMAIN params THEN params["action"] ELSE "",
                      None,
                      [method |-> "GET", params |-> params, headers |-> <<>>,
                       content |-> RequestContent(<<>>, <<>>)])
    /\ issued' = issued + 1
    /\ UNCHANGED <<reqVars, webVars, client, transport, registered, responses, calls, arrived>>

\* create_mock_transport.handler
MockHandle ==
    /\ transport = "mock"
    /\ cur.pc = "sent"
    /\ calls' = Record(calls, Get(cur.request))
    /\ arrived' = arrived + 1
    /\ cur' = [cur EXCEPT !.pc = "responded",
                          !.response = Some(Dispatch(responses, Get(cur.request)))]
    /\ UNCHANGED <<reqVars, webVars, client, transport, registered, responses, issued>>

\* another transport answers
RemoteRespond ==
    /\ transport = "remote"
    /\ cur.pc = "sent"
    /\ \E r \in RemoteResponses(cur.action) :
          cur' = [cur EXCEPT !.pc = "responded", !.response = Some(r)]
    /\ UNCHANGED <<reqVars, webVars, client, transport, registered, responses, calls, arrived, issued>>

\* another transport raises an httpx.HTTPError (connection, timeout, protocol)
RemoteFail ==
    /\ transport = "remote"
    /\ cur.pc = "sent"
    /\ cur' = [cur EXCEPT !.pc = "responded", !.response = Some(NetworkError)]
    /\ UNCHANGED <<reqVars, webVars, client, transport, registered, responses, calls, arrived, issued>>

\* the operation resumes after the await and returns or raises
Complete ==
    /\ cur.pc = "responded"
    /\ cur' = [cur EXCEPT !.pc = "done",
                          !.outcome = Some(IF cur.op = "raw"
                                           THEN Outcome("response", None, <<>>)
                                           ELSE Finish(Get(cur.response), cur.action))]
    /\ UNCHANGED <<reqVars, webVars, client, transport, registered, responses, calls, arrived, issued>>

Next ==
    \/ StartSubmitRun
    \/ StartSubmitRunInput
    \/ StartGetSubmit
    \/ StartGetUser
    \/ RawRequest
    \/ MockHandle
    \/ RemoteRespond
    \/ RemoteFail
    \/ Complete

Spec == Init /\ [][Next]_vars

(***************************************************************************)
(* SpecLife: the life of one client, from its construction to its closing   *)
(***************************************************************************)
InitLife ==
    /\ ReqIdle
    /\ client = NoClient
    /\ transport \in {"mock", "remote"}
    /\ registered = [a \in Actions |-> None]
    /\ responses = CreateResponses(registered)
    /\ calls = <<>>
    /\ arrived = 0
    /\ issued = 0
    /\ cur = Idle
    /\ tasks = <<>>
    /\ app = <<>>

\* EjudgeClient(...): without transport and http_client the network client
\* goes to the network
NewClient ==
    /\ client.state = "none"
    /\ \E h \in OptOf(InjectedClients), t \in {None, Some(transport)} :
          /\ (h = None /\ t = None) => transport = "remote"
          /\ client' = EjudgeClientInit(h, t)
    /\ UNCHANGED <<reqVars, webVars, transport, registered, responses, calls, arrived, issued, cur>>

\* async with client: __aenter__
EnterScope ==
    /\ client.state = "ready" /\ client.scope = "none" /\ ~client.aclosed
    /\ cur.pc = "idle"
    /\ client' = [client EXCEPT !.scope = "inside"]
    /\ UNCHANGED <<reqVars, webVars, transport, registered, responses, calls, arrived, issued, cur>>

\* the block of `async with` is left, normally or by the exception of an
\* operation: __aexit__
ExitScope ==
    /\ client.scope = "inside"
    /\ cur.pc \in {"idle", "done"}
    /\ client' = [CloseClient(client) EXCEPT !.scope = "exited"]
    /\ UNCHANGED <<reqVars, webVars, transport, registered, responses, calls, arrived, issued, cur>>

\* await client.aclose()
Aclose ==
    /\ client.state = "ready"
    /\ cur.pc \in {"idle", "done"}
    /\ client' = CloseClient(client)
    /\ UNCHANGED <<reqVars, webVars, transport, registered, responses, calls, arrived, issued, cur>>

NextLife ==
    \/ NewClient
    \/ EnterScope
    \/ ExitScope
    \/ Aclose
    \/ StartSubmitRun
    \/ StartGetSubmit
    \/ MockHandle
    \/ RemoteRespond
    \/ RemoteFail
    \/ Complete

SpecLife == InitLife /\ [][NextLife]_vars

(***************************************************************************)
(* main.py: the web application (users, tokens, items)                      *)
(***************************************************************************)
\* the items table is exercised up to this many rows
MaxItems == 2

Emails == {<<"a">>, <<"b">>}
Passwords == {<<"p">>, <<"q">>}
Titles == {<<"x">>, <<"y">>}

\* the email and password each user registers with
Accounts ==
    {[email |-> <<"a">>, password |-> <<"p">>], [email |-> <<"b">>, password |-> <<"q">>]}

\* get_password_hash and verify_password (bcrypt through passlib)
GetPasswordHash(pw) == <<"$", "2", "b", "$">> \o pw
VerifyPassword(plain, hashed) == hashed = GetPasswordHash(plain)

\* create_access_token / create_refresh_token: a token signed with SECRET_KEY
\* that carries `sub` and one of the two expiry periods
CreateAccessToken(data) == [sub |-> data.sub, exp |-> "access"]
CreateRefreshToken(data) == [sub |-> data.sub, exp |-> "refresh"]

\* the Token body of register, login and refresh
TokenBody(payload) ==
    [access_token |-> CreateAccessToken(payload),
     refresh_token |-> CreateRefreshToken(payload),
     token_type |-> "bearer"]

\* what a caller can put in the Authorization header: nothing, a bearer
\* token that jwt.decode rejects (malformed, wrongly signed) or finds expired,
\* or a token the application issued earlier
NoHeader == [scheme |-> "none", state |-> "none", token |-> None]
BadTokens ==
    {[scheme |-> "bearer", state |-> st, token |-> None] : st \in {"malformed", "expired"}}
Bearer(token) == [scheme |-> "bearer", state |-> "valid", token |-> Some(token)]
Credentials(a) == {NoHeader} \cup BadTokens \cup {Bearer(t) : t \in a.tokens}

\* a response: status, `detail` of an HTTPException, and the body of a 200
HttpException(status, detail) ==
    [status |-> status, detail |-> detail, tokens |-> None, titles |-> <<>>, item |-> None]
Ok(tokens, titles, item) ==
    [status |-> 200, detail |-> "", tokens |-> tokens, titles |-> titles, item |-> item]

\* the call just served and its response
Call(route, email, cred, title, response) ==
    [route |-> route, email |-> email, cred |-> cred, title |-> title,
     response |-> response]

\* select(User).where(User.email == email) ... .first()
GetUserByEmail(a, email) ==
    LET found == SelectSeq(a.users, LAMBDA u : u.email = email)
    IN  IF found = <<>> THEN None ELSE Some(found[1])

\* a registration that does not look for the email first
RegisterUserNoLookup(a, email, password) ==
    LET user == [id |-> Len(a.users) + 1, email |-> email,
                 hashed_password |-> GetPasswordHash(password)]
        payload == [sub |-> user.email]
    IN  [a EXCEPT !.users = Append(@, user),
                  !.tokens = @ \cup {CreateAccessToken(payload), CreateRefreshToken(payload)},
                  !.last = Call("register", Some(email), NoHeader, None,
                                Ok(Some(TokenBody(payload)), <<>>, None))]

\* POST /auth/register
RegisterUser(a, email, password) ==
    IF GetUserByEmail(a, email) # None
    THEN [a EXCEPT !.last = Call("register", Some(email), NoHeader, None,
                                 HttpException(400, "Email already registered"))]
    ELSE LET user == [id |-> Len(a.users) + 1, email |-> email,
                      hashed_password |-> GetPasswordHash(password)]
             payload == [sub |-> user.email]
         IN  [a EXCEPT !.users = Append(@, user),
                       !.tokens = @ \cup {CreateAccessToken(payload),
                                          CreateRefreshToken(payload)},
                       !.last = Call("register", Some(email), NoHeader, None,
                                     Ok(Some(TokenBody(payload)), <<>>, None))]

\* POST /auth/login
LoginUser(a, email, password) ==
    LET user == GetUserByEmail(a, email)
    IN  IF user = None \/ ~VerifyPassword(password, Get(user).hashed_password)
        THEN [a EXCEPT !.last = Call("login", Some(email), NoHeader, None,
                                     HttpException(401, "Invalid credentials"))]
        ELSE LET payload == [sub |-> Get(user).email]
             IN  [a EXCEPT !.tokens = @ \cup {CreateAccessToken(payload),
                                              CreateRefreshToken(payload)},
                           !.last = Call("login", Some(email), NoHeader, None,
                                         Ok(Some(TokenBody(payload)), <<>>, None))]

\* Depends(oauth2_scheme), then jwt.decode in a handler whose message for
\* an undecodable token is `detail`: the response that ends the call, if any
Rejected(cred, detail) ==
    IF cred.scheme = "none" THEN Some(HttpException(401, "Not authenticated"))
    ELSE IF cred.state # "valid" THEN Some(HttpException(401, detail))
    ELSE None

\* POST /auth/refresh
RefreshAccessToken(a, cred) ==
    LET rejected == Rejected(cred, IF cred.state = "expired" THEN "Refresh token expired"
                                   ELSE "Invalid refresh token")
    IN  IF rejected # None
        THEN [a EXCEPT !.last = Call("refresh", None, cred, None, Get(rejected))]
        ELSE LET sub == Get(cred.token).sub
             IN  IF sub = <<>>
                 THEN [a EXCEPT !.last = Call("refresh", None, cred, None,
                                              HttpException(401, "Invalid token payload"))]
                 ELSE [a EXCEPT !.tokens = @ \cup {CreateAccessToken([sub |-> sub]),
                                                   CreateRefreshToken([sub |-> sub])},
                                !.last = Call("refresh", None, cred, None,
                                              Ok(Some(TokenBody([sub |-> sub])), <<>>, None))]

\* the titles of a sequence of item rows
TitlesOf(rows) == [i \in 1..Len(rows) |-> rows[i].title]

\* a listing that does not filter by owner
ReadItemsOfAll(a, cred) ==
    LET rejected == Rejected(cred, "Not authenticated")
    IN  IF rejected # None
        THEN [a EXCEPT !.last = Call("read_items", None, cred, None, Get(rejected))]
        ELSE LET user == GetUserByEmail(a, Get(cred.token).sub)
             IN  IF user = None
                 THEN [a EXCEPT !.last = Call("read_items", None, cred, None,
                                              HttpException(401, "User not found"))]
                 ELSE [a EXCEPT !.last = Call("read_items", None, cred, None,
                                              Ok(None, TitlesOf(a.items), None))]

\* GET /items
ReadItems(a, cred) ==
    LET rejected == Rejected(cred, "Not authenticated")
    IN  IF rejected # None
        THEN [a EXCEPT !.last = Call("read_items", None, cred, None, Get(rejected))]
        ELSE LET user == GetUserByEmail(a, Get(cred.token).sub)
             IN  IF user = None
                 THEN [a EXCEPT !.last = Call("read_items", None, cred, None,
                                              HttpException(401, "User not found"))]
                 ELSE LET rows == SelectSeq(a.items,
                                            LAMBDA it : it.owner_id = Get(user).id)
                      IN  [a EXCEPT !.last = Call("read_items", None, cred, None,
                                                  Ok(None, TitlesOf(rows), None))]

\* POST /items; `posted` keeps, for every creation that was answered with 200,
\* the subject of the token it came with and the title
CreateItem(a, title, cred) ==
    LET rejected == Rejected(cred, "Not authenticated")
    IN  IF rejected # None
        THEN [a EXCEPT !.last = Call("create_item", None, cred, Some(title), Get(rejected))]
        ELSE LET user == GetUserByEmail(a, Get(cred.token).sub)
             IN  IF user = None
                 THEN [a EXCEPT !.last = Call("create_item", None, cred, Some(title),
                                              HttpException(401, "User not found"))]
                 ELSE LET it == [id |-> Len(a.items) + 1, title |-> title,
                                 owner_id |-> Get(user).id]
                      IN  [a EXCEPT !.items = Append(@, it),
                                    !.posted = Append(@, [sub |-> Get(cred.token).sub,
                                                          title |-> title]),
                                    !.last = Call("create_item", None, cred, Some(title),
                                                  Ok(None, <<>>,
                                                     Some([id |-> it.id, title |-> it.title])))]

\* a fresh schema (tests/conftest.py) and no call served yet
InitApp ==
    /\ ReqIdle
    /\ NetIdle
    /\ app = [users |-> <<>>, items |-> <<>>, tokens |-> {}, posted |-> <<>>,
              last |-> Call("none", None, NoHeader, None, Ok(None, <<>>, None))]

Register ==
    /\ \E account \in Accounts : app' = RegisterUser(app, account.email, account.password)
    /\ UNCHANGED <<reqVars, netVars, tasks>>

Login ==
    /\ \E email \in Emails, password \in Passwords :
          app' = LoginUser(app, email, password)
    /\ UNCHANGED <<reqVars, netVars, tasks>>

Refresh ==
    /\ \E cred \in Credentials(app) : app' = RefreshAccessToken(app, cred)
    /\ UNCHANGED <<reqVars, netVars, tasks>>

GetItems ==
    /\ \E cred \in Credentials(app) : app' = ReadItems(app, cred)
    /\ UNCHANGED <<reqVars, netVars, tasks>>

PostItems ==
    /\ Len(app.items) < MaxItems
    /\ \E title \in Titles, cred \in Credentials(app) : app' = CreateItem(app, title, cred)
    /\ UNCHANGED <<reqVars, netVars, tasks>>

NextApp == Register \/ Login \/ Refresh \/ GetItems \/ PostItems

SpecApp == InitApp /\ [][NextApp]_vars

(***************************************************************************)
(* SpecConc: operations awaited together on one client over the harness     *)
(***************************************************************************)
\* the number of operations issued together
MaxTasks == 2

\* the operations issued together, each as it stands at its first await
ConcurrentOps ==
    {PostStarted("submit_run", r, PrepareSubmitRunPayload(r)) : r \in SubmitRunSamples}
    \cup {GetStarted("get_submit", r, GetSubmitFields) : r \in GetSubmitSamples}
    \cup {GetStarted("get_user", r, GetUserFields) : r \in GetUserSamples}

\* create_mock_transport() and create_mock_transport(submit_run=<an ok=false reply>)
ConcurrentHarnesses ==
    {[a \in Actions |-> None],
     [a \in Actions |->
        IF a = "submit-run"
        THEN Some(RegModel([MakeSubmitRunReply(1, None) EXCEPT !.ok = FALSE]))
        ELSE None]}

InitConc ==
    /\ ReqIdle
    /\ client = EjudgeClientInit(None, Some("transport"))
    /\ transport = "mock"
    /\ registered \in ConcurrentHarnesses
    /\ responses = CreateResponses(registered)
    /\ calls = <<>>
    /\ arrived = 0
    /\ issued = 0
    /\ cur = Idle
    /\ tasks = [i \in 1..MaxTasks |-> Idle]
    /\ app = <<>>

\* a task runs its operation up to the await of self._client.request
TaskStart(i) ==
    /\ tasks[i].pc = "idle"
    /\ \E o \in ConcurrentOps : tasks' = [tasks EXCEPT ![i] = o]
    /\ issued' = issued + 1
    /\ UNCHANGED <<reqVars, app, client, transport, registered, responses, calls, arrived, cur>>

\* the harness handler runs for the task's request, without suspension
TaskHandle(i) ==
    /\ tasks[i].pc = "sent"
    /\ calls' = Record(calls, Get(tasks[i].request))
    /\ arrived' = arrived + 1
    /\ tasks' = [tasks EXCEPT ![i].pc = "responded",
                              ![i].response =
                                  Some(Dispatch(responses, Get(tasks[i].request)))]
    /\ UNCHANGED <<reqVars, app, client, transport, registered, responses, issued, cur>>

\* the task resumes after the await and returns or raises
TaskComplete(i) ==
    /\ tasks[i].pc = "responded"
    /\ tasks' = [tasks EXCEPT ![i].pc = "done",
                              ![i].outcome =
                                  Some(Finish(Get(tasks[i].response), tasks[i].action))]
    /\ UNCHANGED <<reqVars, app, client, transport, registered, responses, calls,
                   arrived, issued, cur>>

NextConc ==
    \/ \E i \in 1..MaxTasks : TaskStart(i)
    \/ \E i \in 1..MaxTasks : TaskHandle(i)
    \/ \E i \in 1..MaxTasks : TaskComplete(i)

SpecConc == InitConc /\ [][NextConc]_vars

(***************************************************************************)
(* SpecAll: a behaviour of SpecReq or a behaviour of Spec                   *)
(***************************************************************************)
InitAll == InitReq \/ Init

NextAll ==
    \/ (phase # "off" /\ NextReq)
    \/ (phase = "off" /\ Next)

SpecAll == InitAll /\ [][NextAll]_vars

(***************************************************************************)
(* Properties of request construction and payload encoding (SpecReq)        *)
(***************************************************************************)
RawSet(names) == {f \in names : raw[f] # None}

ProblemSelectors == {"problem_uuid", "problem_name", "problem"}
LanguageSelectors == {"language_name", "lang_id"}
SourceCarriers == {"file", "text_form"}
StdinCarriers == {"file_input", "text_form_input"}
NotifyTriplet == {"notify_driver", "notify_kind", "notify_queue"}

ConstructedSubmitRun == phase # "new" /\ kind = "submit-run"
ConstructedSubmitRunInput == phase # "new" /\ kind = "submit-run-input"

\* the arguments each constructor defines
KnownArguments ==
    CASE kind = "submit-run" -> SubmitRunFields
      [] kind = "submit-run-input" -> SubmitRunInputFields
      [] kind = "get-submit" -> GetSubmitFields
      [] kind = "get-user" -> GetUserFields
      [] kind = "notification-target" -> {"driver", "kind", "queue"}
      [] OTHER -> {}

\* the keyword arguments are all defined by the model, valid field by field
\* and in their notification triplet
RawScalarsValid ==
    /\ DOMAIN raw \subseteq KnownArguments
    /\ raw.contest_id # None /\ Get(raw.contest_id) > 0
    /\ Cardinality(RawSet(NotifyTriplet)) \in {0, 3}

RawSubmitRunScalarsValid ==
    /\ RawScalarsValid
    /\ raw.problem # None => Get(raw.problem) > 0
    /\ raw.problem_uuid # None => Get(raw.problem_uuid) \in UuidTexts

\* C3 (as claimed): for every valid submit-run request the encoded payload has
\* exactly one source carrier: a text source is the body field text_form, equal
\* to the source text, with no `file` attachment; a binary source is the `file`
\* attachment, whose content is the supplied bytes, with no text_form field.
C3_SourceCarrierClaim ==
    (ConstructedSubmitRun /\ built.ok /\ phase = "encoded") =>
        /\ encoded.ok
        /\ built.req.text_form # None =>
              /\ "text_form" \in DOMAIN encoded.data
              /\ encoded.data["text_form"] = Get(built.req.text_form)
              /\ "file" \notin DOMAIN encoded.files
        /\ built.req.file # None =>
              /\ "file" \in DOMAIN encoded.files
              /\ Utf8Encode(encoded.files["file"][2]) = Get(built.req.file)
              /\ "text_form" \notin DOMAIN encoded.data

\* C4: a submit-run request is constructed only if exactly one of problem_uuid,
\* problem_name, problem is given; with every other argument valid, it is
\* constructed if and only if exactly one of them is given.
C4_ProblemSelector ==
    ConstructedSubmitRun =>
        /\ built.ok => Cardinality(RawSet(ProblemSelectors)) = 1
        /\ ( /\ RawSubmitRunScalarsValid
             /\ Cardinality(RawSet(LanguageSelectors)) = 1
             /\ Cardinality(RawSet(SourceCarriers)) = 1 )
           => (built.ok <=> Cardinality(RawSet(ProblemSelectors)) = 1)

\* C4 witness: two problem selectors with everything else valid are rejected
C4_Witness ==
    /\ ConstructedSubmitRun
    /\ RawSubmitRunScalarsValid
    /\ Cardinality(RawSet(LanguageSelectors)) = 1
    /\ Cardinality(RawSet(SourceCarriers)) = 1
    /\ Cardinality(RawSet(ProblemSelectors)) = 2
    /\ ~built.ok

\* C9: a submit-run request is constructed only if exactly one of language_name,
\* lang_id and exactly one of file, text_form is given; with neither or both of
\* either pair the construction fails with a validation error.
C9_LanguageAndSource ==
    ConstructedSubmitRun =>
        /\ built.ok => /\ Cardinality(RawSet(LanguageSelectors)) = 1
                       /\ Cardinality(RawSet(SourceCarriers)) = 1
        /\ ( /\ RawSubmitRunScalarsValid
             /\ Cardinality(RawSet(ProblemSelectors)) = 1
             /\ Cardinality(RawSet(LanguageSelectors)) = 1
             /\ Cardinality(RawSet(SourceCarriers)) = 1 )
           => built.ok

\* C9 witness: both language selectors given, the rest valid, and rejected
C9_Witness ==
    /\ ConstructedSubmitRun
    /\ RawSubmitRunScalarsValid
    /\ Cardinality(RawSet(ProblemSelectors)) = 1
    /\ Cardinality(RawSet(LanguageSelectors)) = 2
    /\ Cardinality(RawSet(SourceCarriers)) = 1
    /\ ~built.ok

\* one part (source or stdin) of an encoded submit-run-input payload travels on
\* the carrier the request chose, and on that one only
PartCarried(binary, text) ==
    /\ built.req[binary] # None =>
          /\ binary \in DOMAIN encoded.files
          /\ Utf8Encode(encoded.files[binary][2]) = Get(built.req[binary])
          /\ text \notin DOMAIN encoded.data
    /\ built.req[text] # None =>
          /\ text \in DOMAIN encoded.data
          /\ encoded.data[text] = Get(built.req[text])
          /\ binary \notin DOMAIN encoded.files

\* C10 (as claimed): a submit-run-input request is constructed exactly for the
\* four combinations (file or text_form) x (file_input or text_form_input), and
\* for each of them the encoder puts a binary part in the attachments and a
\* text part in the body fields, never both carriers of one part.
C10_SourceStdinClaim ==
    ConstructedSubmitRunInput =>
        /\ built.ok => /\ Cardinality(RawSet(SourceCarriers)) = 1
                       /\ Cardinality(RawSet(StdinCarriers)) = 1
        /\ ( /\ RawScalarsValid
             /\ Cardinality(RawSet(SourceCarriers)) = 1
             /\ Cardinality(RawSet(StdinCarriers)) = 1 )
           => built.ok
        /\ phase = "encoded" =>
              /\ encoded.ok
              /\ PartCarried("file", "text_form")
              /\ PartCarried("file_input", "text_form_input")

ConstructedSubmit == phase # "new" /\ kind \in {"submit-run", "submit-run-input"}

RawContestValid ==
    /\ DOMAIN raw \subseteq KnownArguments
    /\ raw.contest_id # None /\ Get(raw.contest_id) > 0

\* the keyword arguments of a submit request are valid apart from the
\* notification triplet
RawSubmitValidButNotify ==
    /\ RawContestValid
    /\ Cardinality(RawSet(SourceCarriers)) = 1
    /\ kind = "submit-run" =>
          /\ raw.problem # None => Get(raw.problem) > 0
          /\ raw.problem_uuid # None => Get(raw.problem_uuid) \in UuidTexts
          /\ Cardinality(RawSet(ProblemSelectors)) = 1
          /\ Cardinality(RawSet(LanguageSelectors)) = 1
    /\ kind = "submit-run-input" => Cardinality(RawSet(StdinCarriers)) = 1

\* C11: for submit-run and submit-run-input requests the notification triplet
\* is all-or-nothing: a request is constructed only with all three or none of
\* notify_driver, notify_kind, notify_queue, and with everything else valid it
\* is constructed if and only if all three or none are given.
C11_NotificationTriplet ==
    ConstructedSubmit =>
        /\ built.ok => Cardinality(RawSet(NotifyTriplet)) \in {0, 3}
        /\ RawSubmitValidButNotify =>
              (built.ok <=> Cardinality(RawSet(NotifyTriplet)) \in {0, 3})

\* C11 witness: a submit-run-input request with two of the three, everything
\* else valid, has been rejected by the triplet validator
C11_Witness ==
    /\ ConstructedSubmitRunInput
    /\ RawSubmitValidButNotify
    /\ RawSet(NotifyTriplet) = {"notify_driver", "notify_queue"}
    /\ ~built.ok /\ built.err = "notification_triplet"

\* C12: a get-user request is constructed only with exactly one of
\* other_user_id, other_user_login; a get-submit request only with a positive
\* submit_id; every request variant only with a positive contest_id.  With the
\* other arguments valid, a get-user request with exactly one selector and a
\* get-submit request with a positive submit_id are constructed.
C12_SelectorsAndIds ==
    /\ (phase # "new" /\ kind = "get-user") =>
          /\ built.ok => Cardinality(RawSet({"other_user_id", "other_user_login"})) = 1
          /\ (RawContestValid /\ (raw.other_user_id # None => Get(raw.other_user_id) > 0)) =>
                (built.ok <=> Cardinality(RawSet({"other_user_id", "other_user_login"})) = 1)
    /\ (phase # "new" /\ kind = "get-submit") =>
          /\ built.ok => (raw.submit_id # None /\ Get(raw.submit_id) > 0)
          /\ (RawContestValid /\ raw.submit_id # None /\ Get(raw.submit_id) > 0) => built.ok
    /\ (phase # "new" /\ kind \in Actions /\ built.ok) => RawContestValid

\* C12 witness: a get-user request naming the user both by id and by login,
\* otherwise valid, has been rejected
C12_Witness ==
    /\ phase # "new" /\ kind = "get-user"
    /\ RawContestValid
    /\ raw.other_user_id = Some(3) /\ raw.other_user_login # None
    /\ ~built.ok

\* the queue identifier given to the constructor is empty once trimmed
RawQueueBlank(field) == raw[field] # None /\ Strip(Get(raw[field])) = <<>>

\* C13 (as claimed): the notification queue identifier is non-empty after
\* trimming, checked at construction: a submit-run or submit-run-input request
\* whose triplet is present with an empty or whitespace-only notify_queue is
\* rejected and never encoded, and so is a NotificationTarget with such a queue.
C13_QueueNonEmptyClaim ==
    /\ (ConstructedSubmit /\ RawSet(NotifyTriplet) = NotifyTriplet
           /\ RawQueueBlank("notify_queue"))
          => (~built.ok /\ phase # "encoded")
    /\ (phase # "new" /\ kind = "notification-target" /\ RawQueueBlank("queue"))
          => ~built.ok

(***************************************************************************)
(* Properties of the client operations and of the mock harness (Spec)       *)
(***************************************************************************)
ClientOps == {"submit_run", "submit_run_input", "get_submit", "get_user"}

\* a client operation has ended after the transport gave an answer
Answered == cur.pc = "done" /\ cur.op \in ClientOps /\ cur.response # None

TheRequest == Get(cur.request)
TheResponse == Get(cur.response)
TheOutcome == Get(cur.outcome)

\* the answer is an HTTP response whose body decodes as the operation's reply
\* envelope
EnvelopeAnswer ==
    /\ TheResponse.kind = "http"
    /\ TheResponse.json
    /\ ValidateReply(TheResponse.obj, cur.action).ok

TheEnvelope == ValidateReply(TheResponse.obj, cur.action).val

Mentions(message, token) == \E n \in 1..Len(message) : message[n] = token

\* C1 (as claimed): every reply envelope with ok = false sent in answer to a
\* client operation makes it raise EjudgeReplyError carrying the decoded
\* envelope, whatever the HTTP status it is sent with.
C1_ReplyErrorClaim ==
    (Answered /\ EnvelopeAnswer /\ ~TheEnvelope.ok) =>
        /\ TheOutcome.kind = "EjudgeReplyError"
        /\ TheOutcome.reply = Some(TheEnvelope)

\* C1 (amended): every reply envelope with ok = false sent with a 2xx HTTP
\* status in answer to a client operation makes it raise EjudgeReplyError
\* whose reply is the decoded envelope; the operation never returns normally.
C1_ReplyError ==
    (Answered /\ EnvelopeAnswer /\ ~TheEnvelope.ok /\ TheResponse.status \in 200..299) =>
        /\ TheOutcome.kind = "EjudgeReplyError"
        /\ TheOutcome.reply = Some(TheEnvelope)

\* C1 witness: a 200 answer with ok = false and no error block ended in
\* EjudgeReplyError
C1_Witness ==
    /\ Answered /\ EnvelopeAnswer
    /\ TheResponse.status = 200
    /\ ~TheEnvelope.ok /\ TheEnvelope.error = None
    /\ TheOutcome.kind = "EjudgeReplyError"

\* C2: a non-2xx answer makes the operation raise EjudgeClientError (not the
\* EjudgeReplyError subclass) whose message names the action and the status
\* code, whatever the body; a transport failure makes it raise an
\* EjudgeClientError with another message, which names the action.
C2_StatusAndNetworkErrors ==
    Answered =>
        /\ (TheResponse.kind = "http" /\ TheResponse.status \notin 200..299) =>
              /\ TheOutcome.kind = "EjudgeClientError"
              /\ Mentions(TheOutcome.message, Named("action", cur.action))
              /\ Mentions(TheOutcome.message, Number("status", TheResponse.status))
        /\ TheResponse.kind = "error" =>
              /\ TheOutcome.kind = "EjudgeClientError"
              /\ Mentions(TheOutcome.message, Named("action", cur.action))
              /\ \A n \in 1..Len(TheOutcome.message) : TheOutcome.message[n].k # "status"
              /\ TheOutcome.message[1] # Text("ejudge returned unexpected HTTP status ")

\* C2 witness: a 500 answer carrying a well-formed ok = false envelope ended
\* in EjudgeClientError
C2_Witness ==
    /\ Answered /\ EnvelopeAnswer
    /\ TheResponse.status = 500
    /\ ~TheEnvelope.ok
    /\ TheOutcome.kind = "EjudgeClientError"

\* C5 (as claimed): an operation that returns normally returns an envelope
\* with ok = true, no error block and a result.
C5_SuccessEnvelopeClaim ==
    (Answered /\ TheOutcome.kind = "return") =>
        /\ Get(TheOutcome.reply).ok
        /\ Get(TheOutcome.reply).error = None
        /\ Get(TheOutcome.reply).result # None

\* the harness has answered the request of the operation in progress
HarnessAnswered == transport = "mock" /\ cur.response # None

\* C6: the harness answers by a three-way dispatch on the `action` query
\* parameter: none gives 400 and {ok: false, error: {symbol: "missing-action"}};
\* one with no registered response gives 404, error.symbol "unhandled-action"
\* and error.message the action; a registered one gives the registered status
\* (200 when only a payload was registered) and the registered payload.
C6_Dispatch ==
    HarnessAnswered =>
        IF "action" \notin DOMAIN TheRequest.params
        THEN /\ TheResponse.status = 400
             /\ TheResponse.obj = [ok |-> FALSE, error |-> [symbol |-> "missing-action"]]
        ELSE LET action == TheRequest.params["action"]
             IN  IF action \notin Actions \/ registered[action] = None
                 THEN /\ TheResponse.status = 404
                      /\ TheResponse.obj["ok"] = FALSE
                      /\ TheResponse.obj["error"]["symbol"] = "unhandled-action"
                      /\ TheResponse.obj["error"]["message"] = action
                 ELSE LET reg == Get(registered[action])
                      IN  /\ TheResponse.status = IF reg.tuple THEN reg.status ELSE 200
                          /\ TheResponse.obj = IF reg.model # None
                                               THEN DumpReply(Get(reg.model), action)
                                               ELSE Get(reg.dict)

\* C6 witness: a request without `action` has been answered with 400
C6_Witness ==
    /\ HarnessAnswered
    /\ "action" \notin DOMAIN TheRequest.params
    /\ TheResponse.status = 400

\* C7: the harness appends exactly one RecordedCall (method, URL, headers, raw
\* body) per incoming request, whatever the dispatch outcome, and nothing else
\* changes the log: a handled request is the last entry as soon as its
\* response exists, the log has as many entries as requests arrived, and a
\* step either appends the handled request or leaves the log alone.
C7_Recording ==
    /\ [][IF transport = "mock" /\ cur.pc = "sent" /\ cur'.pc = "responded"
          THEN calls' = Append(calls, RecordedCall(TheRequest))
          ELSE calls' = calls]_vars
    /\ [](Len(calls) = arrived)
    /\ [](HarnessAnswered =>
            /\ Len(calls) >= 1
            /\ calls[Len(calls)] = RecordedCall(TheRequest))

\* C7 witness: two requests are in the log, the second one unmapped (404) or
\* without action (400), after a first one made with another method
C7_Witness ==
    /\ HarnessAnswered
    /\ Len(calls) = 2
    /\ TheResponse.status \in {400, 404}
    /\ calls[1].method # calls[2].method

\* C8: a success reply built by a helper and registered as such in the
\* harness comes back from the matching client operation as an equal instance.
C8_RoundTrip ==
    ( /\ transport = "mock" /\ Answered
      /\ registered[cur.action] \in {Some(RegModel(r)) : r \in HelperReplies(cur.action)} )
    => /\ TheOutcome.kind = "return"
       /\ TheOutcome.reply = Get(registered[cur.action]).model

\* a client operation has handed its request to the network client
RequestIssued == cur.op \in ClientOps /\ cur.request # None

TheModel == Get(cur.model)

BearerPrefix == <<"B", "e", "a", "r", "e", "r", " ", "A", "Q", "A", "A">>

\* C14: every outbound request of every client operation carries the header
\* Authorization = "Bearer AQAA" followed by the token given at construction,
\* whether the client built its own network client, was given a transport or
\* was given an injected network client; the harness records it so.
C14_Authorization ==
    /\ RequestIssued =>
          /\ "Authorization" \in DOMAIN TheRequest.headers
          /\ TheRequest.headers["Authorization"] = BearerPrefix \o ApiToken
    /\ (HarnessAnswered /\ cur.op \in ClientOps) =>
          calls[Len(calls)].headers["Authorization"] = BearerPrefix \o <<"t">>

\* C14 witness: the harness recorded a get_user request made through an
\* injected network client that has an Authorization default header of its own
C14_Witness ==
    /\ client.mode = "http_client" /\ client.authorization = Some(<<"x">>)
    /\ HarnessAnswered /\ cur.op = "get_user"
    /\ calls[Len(calls)].headers["Authorization"] =
          <<"B", "e", "a", "r", "e", "r", " ", "A", "Q", "A", "A", "t">>

\* C15: every outbound request of every client operation has the query
\* parameters json=1 and action=<the request's action>, whatever the verb; the
\* body fields and attachments of the POST operations have no `action` entry.
C15_QueryAndBody ==
    RequestIssued =>
        /\ {"json", "action"} \subseteq DOMAIN TheRequest.params
        /\ TheRequest.params["json"] = <<"1">>
        /\ TheRequest.params["action"] = TheModel.action
        /\ TheRequest.method = "POST" =>
              /\ "action" \notin DOMAIN TheRequest.content.fields
              /\ "action" \notin DOMAIN TheRequest.content.files

\* C15 witness: a multipart submit_run request is out, with action=submit-run
\* in its query string
C15_Witness ==
    /\ RequestIssued /\ cur.op = "submit_run"
    /\ TheRequest.content.ctype = "multipart/form-data"
    /\ TheRequest.params["action"] = "submit-run"

BinaryFields == {"file", "file_input"}

\* the fields of the request model that are set, `action` aside
PresentFields(req) == {f \in DOMAIN req \ {"action"} : req[f] # None}

BoolText(b) == IF b THEN <<"1">> ELSE <<"0">>

\* the string form of a scalar field that is not a boolean
ScalarText(f, v) ==
    IF f \in {"contest_id", "problem", "notify_driver", "submit_id", "other_user_id"}
    THEN IntStr(v)
    ELSE IF f \in {"lang_id", "prob_id"}
    THEN (IF v.t = "int" THEN IntStr(v.i) ELSE v.s)
    ELSE v

\* C17: every boolean request field that is present is encoded as "1" when
\* true and "0" when false, in the POST body fields (is_visible) and in the GET
\* query parameters (global); every other present scalar field is copied as
\* its string form.
C17_Booleans ==
    RequestIssued =>
        /\ cur.op \in {"submit_run", "submit_run_input"} =>
              \A f \in PresentFields(TheModel) \ BinaryFields :
                  /\ f \in DOMAIN TheRequest.content.fields
                  /\ TheRequest.content.fields[f] =
                        IF f = "is_visible" THEN BoolText(Get(TheModel[f]))
                        ELSE ScalarText(f, Get(TheModel[f]))
        /\ cur.op \in {"get_submit", "get_user"} =>
              \A f \in PresentFields(TheModel) :
                  IF f = "global_"
                  THEN TheRequest.params["global"] = BoolText(Get(TheModel[f]))
                  ELSE TheRequest.params[f] = ScalarText(f, Get(TheModel[f]))

\* C17 witness: a submit_run request with is_visible False is out, with
\* is_visible=0 and contest_id=2 among its body fields
C17_Witness ==
    /\ RequestIssued /\ cur.op = "submit_run"
    /\ TheModel.is_visible = Some(FALSE)
    /\ TheRequest.content.fields["is_visible"] = <<"0">>
    /\ TheRequest.content.fields["contest_id"] = <<"2">>

\* the reply model each operation validates against
ExpectedShape ==
    CASE cur.op = "submit_run" -> "SubmitRunReply"
      [] cur.op = "submit_run_input" -> "SubmitRunInputReply"
      [] cur.op = "get_submit" -> "GetSubmitReply"
      [] cur.op = "get_user" -> "GetUserReply"

\* C18: for a 2xx response, a body that is not JSON makes the operation raise
\* EjudgeClientError, and a JSON body that does not validate against the
\* action's reply model makes it raise EjudgeClientError naming that model;
\* neither is an EjudgeReplyError and no other exception comes out.  The
\* checks run in the order status, JSON, shape, ok flag.
C18_JsonAndShape ==
    (Answered /\ TheResponse.kind = "http") =>
        /\ TheOutcome.kind \in {"return", "EjudgeClientError", "EjudgeReplyError"}
        /\ TheResponse.status \notin 200..299 =>
              /\ TheOutcome.kind = "EjudgeClientError"
              /\ TheOutcome.message[1] = Text("ejudge returned unexpected HTTP status ")
        /\ (TheResponse.status \in 200..299 /\ ~TheResponse.json) =>
              /\ TheOutcome.kind = "EjudgeClientError"
              /\ TheOutcome.message =
                    <<Text("ejudge response did not contain valid JSON payload.")>>
        /\ (TheResponse.status \in 200..299 /\ TheResponse.json /\ ~EnvelopeAnswer) =>
              /\ TheOutcome.kind = "EjudgeClientError"
              /\ TheOutcome.message[1] = Text("Unable to validate ejudge response as ")
              /\ Mentions(TheOutcome.message, Named("model", ExpectedShape))
        /\ (TheResponse.status \in 200..299 /\ EnvelopeAnswer) =>
              TheOutcome.kind = IF TheEnvelope.ok THEN "return" ELSE "EjudgeReplyError"

\* C18 witness: a 200 answer whose JSON body says ok = false but is not a
\* reply envelope ended in EjudgeClientError
C18_Witness ==
    /\ Answered /\ TheResponse.kind = "http" /\ TheResponse.status = 200
    /\ TheResponse.json /\ ~EnvelopeAnswer
    /\ "ok" \in DOMAIN TheResponse.obj /\ TheResponse.obj["ok"] = FALSE
    /\ TheOutcome.kind = "EjudgeClientError"

ReplyErrorMessage(symbol, num, message) ==
    <<Text("ejudge reported error "), Named("symbol", symbol), Text(" ("),
      Number("num", num), Text("): "), Named("message", message)>>

\* C19: the EjudgeReplyError raised for an ok = false envelope has a message
\* built from the error block's symbol, number and message ("no message" when
\* the block has none); without an error block the message is built from the
\* sentinel block (-1, "unknown") and the envelope the exception carries is
\* the one received, still without an error block.
C19_ReplyErrorMessage ==
    (Answered /\ TheOutcome.kind = "EjudgeReplyError") =>
        /\ TheOutcome.reply = Some(TheEnvelope)
        /\ TheEnvelope.error # None =>
              TheOutcome.message =
                  ReplyErrorMessage(Get(Get(TheEnvelope.error).symbol),
                                    Get(Get(TheEnvelope.error).num),
                                    IF Get(TheEnvelope.error).message = None
                                    THEN "no message"
                                    ELSE Get(Get(TheEnvelope.error).message))
        /\ TheEnvelope.error = None =>
              /\ TheOutcome.message =
                    ReplyErrorMessage("unknown", 0 - 1,
                                      "No error payload provided by ejudge.")
              /\ Get(TheOutcome.reply).error = None

\* C19 witness: an ok = false envelope whose error block has no message ended
\* in an EjudgeReplyError saying "no message"
C19_Witness ==
    /\ Answered /\ TheOutcome.kind = "EjudgeReplyError"
    /\ TheEnvelope.error # None /\ Get(TheEnvelope.error).message = None
    /\ TheOutcome.message[6] = Named("message", "no message")

\* C20 (as claimed): every failure of a client operation after its request
\* was answered (unexpected HTTP status, network failure, non-JSON body,
\* reply validation failure, ok = false reply) is an exception whose message
\* names the action attempted.
C20_FailureNamesActionClaim ==
    (Answered /\ TheOutcome.kind # "return") =>
        Mentions(TheOutcome.message, Named("action", cur.action))

\* C21: constructing the client with both http_client and transport fails, and
\* no network client has been created by then; with at most one of the two the
\* construction succeeds, creating a network client only when none is injected.
C21_Construction ==
    client.state # "none" =>
        /\ client.state = IF client.given = {"http_client", "transport"}
                          THEN "failed" ELSE "ready"
        /\ client.state = "failed" => (client.created = 0 /\ ~client.closed)
        /\ client.state = "ready" =>
              client.created = IF "http_client" \in client.given THEN 0 ELSE 1

\* C21 witness: a construction with both arguments has failed
C21_Witness ==
    /\ client.state = "failed"
    /\ client.given = {"http_client", "transport"}
    /\ client.created = 0

\* C22: a client that created its own network client closes it on aclose and
\* on every exit from `async with`, also when the block is left after an
\* operation raised; a client given an injected network client never closes
\* it; nothing else closes a network client.
C22_Closing ==
    /\ [](client.aclosed => (client.closed <=> client.own_client))
    /\ [](client.scope = "exited" => (client.aclosed /\ client.closed = client.own_client))
    /\ [](~client.own_client => ~client.closed)
    /\ [][client'.closed # client.closed =>
             (client.own_client /\ ~client.aclosed /\ client'.aclosed)]_vars
    /\ [][(client.scope = "inside" /\ client'.scope = "exited" /\ client.own_client)
             => client'.closed]_vars

\* C22 witness: an `async with` block was left after an operation raised
\* EjudgeClientError, and the client's own network client is closed
C22_Witness ==
    /\ client.scope = "exited" /\ client.own_client /\ client.closed
    /\ cur.pc = "done" /\ TheOutcome.kind = "EjudgeClientError"

\* a JSON body has a key that the operation's reply model does not define, at
\* envelope, result or error level
HasExtraField(obj, action) ==
    \/ ~(DOMAIN obj \subseteq EnvelopeFields)
    \/ /\ "result" \in DOMAIN obj
       /\ ~(DOMAIN obj["result"] \subseteq ResultModel(action).fields)
    \/ /\ "error" \in DOMAIN obj
       /\ ~(DOMAIN obj["error"] \subseteq {"num", "symbol", "message"})

\* C23: unknown fields are rejected, never dropped: a request model is not
\* constructed from arguments that include one it does not define, and a 2xx
\* reply body with a field the expected reply model does not define (in the
\* envelope, the result or the error block) makes the operation raise
\* EjudgeClientError instead of returning a reply.
C23_ExtraFields ==
    /\ (phase \in {"built", "encoded"} /\ built.ok) => DOMAIN raw \subseteq KnownArguments
    /\ ( /\ phase = "off" /\ Answered
         /\ TheResponse.kind = "http" /\ TheResponse.status \in 200..299
         /\ TheResponse.json /\ HasExtraField(TheResponse.obj, cur.action) )
       => (TheOutcome.kind = "EjudgeClientError" /\ TheOutcome.reply = None)

\* C23 witness: a 200 answer whose result has an undefined field ended in
\* EjudgeClientError
C23_Witness ==
    /\ phase = "off" /\ Answered
    /\ TheResponse.kind = "http" /\ TheResponse.status = 200 /\ TheResponse.json
    /\ "result" \in DOMAIN TheResponse.obj
    /\ "detail" \in DOMAIN TheResponse.obj["result"]
    /\ TheOutcome.kind = "EjudgeClientError"

\* C24 (as claimed): a constructed request instance is never changed, so at
\* every point after construction, and when it is encoded for an operation, it
\* is the instance the constructor returned and satisfies the exactly-one
\* selector and all-or-none notification-triplet invariants.
C24_ImmutableClaim ==
    (phase \in {"built", "encoded"} /\ built.ok) =>
        /\ built = Construct(kind, raw)
        /\ kind = "submit-run" =>
              /\ EnsureProblemSelector(built.req)
              /\ EnsureLanguageSelector(built.req)
              /\ EnsureSourcePayload(built.req)
              /\ EnsureNotificationTriplet(built.req)
        /\ kind = "submit-run-input" =>
              /\ EnsureInputSourcePayload(built.req)
              /\ EnsureStdinPayload(built.req)
              /\ EnsureNotificationTriplet(built.req)
        /\ kind = "get-user" => EnsureSelector(built.req)

\* C25 (as claimed): an operation that returns normally returns an envelope
\* whose action is the action of the request that was sent.
C25_ActionEchoClaim ==
    (phase = "off" /\ Answered /\ TheOutcome.kind = "return") =>
        Get(TheOutcome.reply).action = cur.action

\* C28 (as claimed): every invocation of a client operation issues exactly
\* one request: over the mock harness, once the operations started so far have
\* all ended, the call log has one entry per operation.
C28_OneRequestPerCallClaim ==
    (phase = "off" /\ transport = "mock" /\ cur.pc \in {"idle", "done"}) =>
        Len(calls) = issued

\* C30 (as claimed): the text source and the text stdin of a submit request
\* are the body fields text_form and text_form_input with exactly the
\* characters the caller supplied.
C30_SourceVerbatimClaim ==
    ( /\ phase = "encoded" /\ kind \in {"submit-run", "submit-run-input"}
      /\ built = Construct(kind, raw) /\ encoded.ok ) =>
        /\ raw.text_form # None =>
              /\ "text_form" \in DOMAIN encoded.data
              /\ encoded.data["text_form"] = Get(raw.text_form)
        /\ (kind = "submit-run-input" /\ raw.text_form_input # None) =>
              /\ "text_form_input" \in DOMAIN encoded.data
              /\ encoded.data["text_form_input"] = Get(raw.text_form_input)

\* the call just served by the application, and its response
LastCall == app.last
LastResponse == app.last.response

\* users holding an email
UsersWith(a, email) == {i \in 1..Len(a.users) : a.users[i].email = email}

\* C26: after any sequence of calls each email belongs to at most one user;
\* a register call for a registered email is answered 400 "Email already
\* registered", adds no user and issues no token; a register call for a new
\* email adds exactly one user, with that email, and returns an access token
\* and a refresh token for it.
C26_Register ==
    /\ [](\A email \in Emails : Cardinality(UsersWith(app, email)) <= 1)
    /\ [][app'.last.route = "register" =>
            LET email == Get(app'.last.email)
                answer == app'.last.response
            IN  IF UsersWith(app, email) # {}
                THEN /\ answer.status = 400
                     /\ answer.detail = "Email already registered"
                     /\ answer.tokens = None
                     /\ app'.users = app.users
                     /\ app'.tokens = app.tokens
                ELSE /\ answer.status = 200
                     /\ Len(app'.users) = Len(app.users) + 1
                     /\ SubSeq(app'.users, 1, Len(app.users)) = app.users
                     /\ Cardinality(UsersWith(app', email)) = 1
                     /\ answer.tokens # None
                     /\ Get(answer.tokens).access_token.sub = email
                     /\ Get(answer.tokens).refresh_token.sub = email]_vars

\* C26 witness: a second register call for an email was answered 400 while
\* two users are registered
C26_Witness ==
    /\ LastCall.route = "register"
    /\ LastResponse.status = 400
    /\ Len(app.users) = 2

\* the titles posted with tokens of one subject, in the order of posting
PostedBy(sub) == TitlesOf(SelectSeq(app.posted, LAMBDA c : c.sub = sub))

\* C27: GET /items with a valid token of a user returns exactly the titles
\* created with tokens of that user, none before the first creation and never
\* another user's; GET /items and POST /items without a valid token are
\* answered 401 or 403 and change no table.
C27_Items ==
    /\ []((LastCall.route = "read_items" /\ LastCall.cred.state = "valid") =>
             /\ LastResponse.status = 200
             /\ LastResponse.titles = PostedBy(Get(LastCall.cred.token).sub))
    /\ []((LastCall.route \in {"read_items", "create_item"}
           /\ LastCall.cred.state # "valid") =>
             /\ LastResponse.status \in {401, 403}
             /\ LastResponse.titles = <<>> /\ LastResponse.item = None)
    /\ [][(app'.last.route \in {"read_items", "create_item"}
           /\ app'.last.cred.state # "valid") =>
             /\ app'.items = app.items
             /\ app'.users = app.users
             /\ app'.posted = app.posted]_vars

\* C27 witness: a listing returned a user's title while another user owns an
\* item too
C27_Witness ==
    /\ LastCall.route = "read_items"
    /\ LastResponse.status = 200
    /\ Len(LastResponse.titles) >= 1
    /\ Len(app.items) > Len(LastResponse.titles)

\* every operation issued together has ended
AllDone == \A i \in 1..MaxTasks : tasks[i].pc = "done"

\* how often a recorded call occurs in the log
Occurrences(log, c) == Cardinality({j \in 1..Len(log) : log[j] = c})

\* C29 (as claimed): when all operations issued together on one client over
\* the harness have ended, the log has exactly one entry per operation, none
\* lost and none duplicated, and the outcome of each operation is the one that
\* follows from the response to its own request.
C29_ConcurrentCallsClaim ==
    AllDone =>
        /\ Len(calls) = MaxTasks
        /\ \A i \in 1..MaxTasks :
              Occurrences(calls, RecordedCall(Get(tasks[i].request))) =
                  Cardinality({k \in 1..MaxTasks : tasks[k].request = tasks[i].request})
        /\ \A i \in 1..MaxTasks :
              tasks[i].outcome =
                  Some(Finish(Dispatch(responses, Get(tasks[i].request)), tasks[i].action))

\* C8 witness: submit_run returned a helper's reply that has a run_uuid
C8_Witness ==
    /\ transport = "mock" /\ Answered
    /\ cur.action = "submit-run"
    /\ registered[cur.action] = Some(RegModel(MakeSubmitRunReply(42, Some(<<"A">>))))
    /\ TheOutcome.kind = "return"

=============================================================================
